---- MODULE Spec2Model ----
(***************************************************************************)
(* A model of the Telegram Twitter-analysis / token-swap bot.              *)
(*                                                                         *)
(*   src/final.py    the swap variant                                      *)
(*   src/chatbot.py  the token-preference variant                          *)
(*                                                                         *)
(*   src/swap.py     the terminal program                                  *)
(*                                                                         *)
(* One of the programs runs: Spec covers them, program says which.         *)
(*                                                                         *)
(* Python dictionaries are modelled as functions whose DOMAIN is the set   *)
(* of keys present: "k in d" is k \in DOMAIN d, "d[k] = v" is Put(d,k,v).  *)
(* The chat transport, the remote agent and the chain are external: what   *)
(* they answer is a nondeterministic input of each action.                 *)
(***************************************************************************)
EXTENDS Integers, Sequences, FiniteSets, TLC

VARIABLES
    program,         \* which program is running: "final", "chatbot", "swap", or
                     \* "parser": parse_token_preference applied to one text
    user_states,     \* self.user_states: user id -> UserState value
    user_data,       \* self.user_data: user id -> dict of session fields
    chat_histories,  \* self.chat_histories: user id -> list of message records
    keyboards,       \* per user: inline keyboards sent to them and not yet edited away
    has_key,         \* whether PRIVATE_KEY was configured (self.w3 / self.account set)
    ev,              \* what the last handled update was and what it did
    pref_text,       \* the text given to parse_token_preference
    pref_result,     \* what parse_token_preference gave for it, once applied
    response_text,   \* the body given to parse_streaming_response, as its lines
    parsed_response  \* what parse_streaming_response gave for it, once applied

vars == <<program, user_states, user_data, chat_histories, keyboards, has_key, ev,
          pref_text, pref_result, response_text, parsed_response>>

(***************************************************************************)
(* Bounds of the model.                                                    *)
(***************************************************************************)
MaxHist == 3
MaxKeyboards == 2

Users == {1}

(***************************************************************************)
(* Dictionaries.                                                           *)
(***************************************************************************)
EmptyDict == [k \in {} |-> 0]

Put(d, k, v) == (k :> v) @@ d

Has(d, k) == k \in DOMAIN d

\* d.get(k, default)
Get(d, k, default) == IF k \in DOMAIN d THEN d[k] ELSE default

(***************************************************************************)
(* UserState (final.py): the enum's values.                                *)
(***************************************************************************)
WAITING_FOR_TWITTER_URL == "waiting_for_twitter_url"
WAITING_FOR_WALLET_ADDRESS == "waiting_for_wallet_address"
WAITING_FOR_SWAP_REQUEST == "waiting_for_swap_request"
WAITING_FOR_SWAP_CONFIRMATION == "waiting_for_swap_confirmation"
IDLE == "idle"

UserState ==
    {WAITING_FOR_TWITTER_URL, WAITING_FOR_WALLET_ADDRESS, WAITING_FOR_SWAP_REQUEST,
     WAITING_FOR_SWAP_CONFIRMATION, IDLE}

\* A text given to parse_token_preference (see chatbot.py below), and the
\* values of pref_text and pref_result while nothing is being parsed.
Text(padded, tokens) == [padded |-> padded, tokens |-> tokens]

NoPreference == Text(FALSE, << >>)

NotParsed == [ok |-> FALSE, allocation |-> EmptyDict, error |-> "not parsed", total |-> 0]

\* self.user_states.get(user_id, UserState.IDLE)
StateOf(states, u) == Get(states, u, IDLE)

(***************************************************************************)
(* Text messages.  A text is known by the features the validators read.    *)
(***************************************************************************)
T_URL == "https://x.com/u/status/1"
T_NOSCHEME == "x.com/u/status/1"
T_WALLET == "0x52908400098527886E0F7030069857D2E4169EE7"
T_SHORTHEX == "0x5290"
T_YES == "Yes"
T_NO == "cancel"
T_OTHER == "swap all to ETH"

Texts == {T_URL, T_NOSCHEME, T_WALLET, T_SHORTHEX, T_YES, T_NO, T_OTHER}

\* any(domain in url.lower() for domain in ['twitter.com', 'x.com'])
HasTwitterDomain(t) == t \in {T_URL, T_NOSCHEME}

\* url.startswith(('http://', 'https://'))
HasHttpScheme(t) == t \in {T_URL}

\* len(address)
TextLen(t) ==
    CASE t = T_URL -> 24
      [] t = T_NOSCHEME -> 16
      [] t = T_WALLET -> 42
      [] t = T_SHORTHEX -> 6
      [] t = T_YES -> 3
      [] t = T_NO -> 6
      [] OTHER -> 15

\* address.startswith('0x')
StartsWith0x(t) == t \in {T_WALLET, T_SHORTHEX}

\* all(c in '0123456789abcdefABCDEF' for c in address[2:])
AllHexAfterPrefix(t) == t \in {T_WALLET, T_SHORTHEX}

\* user_message.lower() in ["yes", "confirm", "proceed", "do it", "execute"]
IsConfirmText(t) == t \in {T_YES}

\* user_message.lower() in ["no", "cancel", "stop", "abort"]
IsCancelText(t) == t \in {T_NO}

is_valid_twitter_url(url) == HasTwitterDomain(url) /\ HasHttpScheme(url)

is_valid_wallet_address(address) ==
    TextLen(address) = 42 /\ StartsWith0x(address) /\ AllHexAfterPrefix(address)

(***************************************************************************)
(* The JSON value found under a tool result's 'result' key, by shape.      *)
(*   R_ABSENT     the invocation has no 'result' key (inv.get gives {})    *)
(*   R_SCALAR     a number, true/false or null: "'data' in result" raises  *)
(*                TypeError                                                *)
(*   R_TEXT       a string without the substring 'data'                    *)
(*   R_EMPTY      {}                                                       *)
(*   R_SWAP       {"data": {"data": {"tokenIn": ..., "tokenOut": ...}}}    *)
(*   R_TX         {"data": {"evmSignRequest": {"params": [{to,value,data}]}}}*)
(*   R_TX_MANY    the same with two entries in params                      *)
(*   R_TX_NOPARAMS  {"data": {"evmSignRequest": {"params": []}}}           *)
(***************************************************************************)
R_ABSENT == "absent"
R_SCALAR == "scalar"
R_TEXT == "text"
R_EMPTY == "empty_object"
R_SWAP == "swap_data"
R_TX == "evm_sign_request"
R_TX_MANY == "evm_sign_request_many"
R_TX_NOPARAMS == "evm_sign_request_no_params"

ResultShapes == {R_ABSENT, R_SCALAR, R_TEXT, R_EMPTY, R_SWAP, R_TX, R_TX_MANY, R_TX_NOPARAMS}

\* inv.get('result', {})
ResultOf(inv) == IF inv.result = R_ABSENT THEN R_EMPTY ELSE inv.result

\* "'data' in result" raises TypeError (the operand is not a container)
InRaises(result) == result = R_SCALAR

\* 'data' in result
HasData(result) == result \in {R_SWAP, R_TX, R_TX_MANY, R_TX_NOPARAMS}

\* 'data' in result and 'evmSignRequest' in result['data']
HasEvmSignRequest(result) == result \in {R_TX, R_TX_MANY, R_TX_NOPARAMS}

\* len(tx_data['params'])
NumParams(result) ==
    CASE result = R_TX -> 1
      [] result = R_TX_MANY -> 2
      [] OTHER -> 0

(***************************************************************************)
(* The streamed response body: a sequence of lines.  A line is             *)
(*   p     its prefix: "0", "9", "a" or another one ("x")                  *)
(*   j     what json.loads gives for the rest: J_BAD (JSONDecodeError),    *)
(*         J_STR (a string), J_SCALAR (a number, null, a list: anything    *)
(*         without .get that is not a string), J_OBJ (an object)           *)
(*   c     the string (j = J_STR)                                          *)
(*   id    the object's toolCallId: a non-empty string, EmptyId (a value   *)
(*         Python takes as false: "", 0), ListId (a non-empty list or      *)
(*         object, which cannot be a dictionary key), or NoId when the     *)
(*         object has none (.get gives None)                               *)
(*   name  the object's toolName, NoName when it has none                  *)
(*   res   the object's 'result' by shape, R_ABSENT when it has none       *)
(***************************************************************************)
J_BAD == "malformed"
J_STR == "string"
J_SCALAR == "scalar"
J_OBJ == "object"

NoId == "no_id"
EmptyId == ""
ListId == "[1]"

\* "if tool_call_id:"
Truthy(id) == id \notin {NoId, EmptyId}

\* hash(tool_call_id) raises TypeError (unhashable type)
Unhashable(id) == id = ListId
NoName == "no_name"

Line(p, j, c, id, name, res) ==
    [p |-> p, j |-> j, c |-> c, id |-> id, name |-> name, res |-> res]

TextLine(c) == Line("0", J_STR, c, NoId, NoName, R_ABSENT)
CallLine(id, name) == Line("9", J_OBJ, "", id, name, R_ABSENT)
ResultLine(id, res) == Line("a", J_OBJ, "", id, NoName, res)
BadLine(p) == Line(p, J_BAD, "", NoId, NoName, R_ABSENT)
ScalarLine(p) == Line(p, J_SCALAR, "", NoId, NoName, R_ABSENT)

\* The parser's failure result: {"error": "Failed to parse response: ..."}
ParseError ==
    [error |-> TRUE, content |-> "", tool_invocations |-> << >>, assistant_message |-> << >>]

\* The loop pass with a JSONDecodeError not caught: it leaves the loop.
ParseLine_strict(acc, line) ==
    IF acc.raised THEN acc
    ELSE IF line.j = J_BAD /\ line.p \in {"0", "9", "a"} THEN [acc EXCEPT !.raised = TRUE]
    ELSE IF line.p = "0" /\ line.j = J_STR THEN [acc EXCEPT !.content = acc.content \o line.c]
    ELSE IF line.p = "9" THEN [acc EXCEPT !.calls = Append(acc.calls, line)]
    ELSE IF line.p = "a" /\ line.j = J_OBJ /\ Truthy(line.id) /\ ~Unhashable(line.id)
    THEN [acc EXCEPT !.results = Put(acc.results, line.id, line)]
    ELSE acc

\* A faulty loop pass: a result is stored only when its call has already
\* been read, so a result that comes before its call is lost.
ParseLine_result_after_call(acc, line) ==
    IF acc.raised THEN acc
    ELSE IF line.j = J_BAD THEN acc
    ELSE IF line.p = "0" THEN
        IF line.j = J_STR THEN [acc EXCEPT !.content = acc.content \o line.c] ELSE acc
    ELSE IF line.p = "9" THEN
        [acc EXCEPT !.calls = Append(acc.calls, line)]
    ELSE IF line.p = "a" THEN
        IF line.j # J_OBJ THEN [acc EXCEPT !.raised = TRUE]
        ELSE IF Truthy(line.id)
             THEN IF Unhashable(line.id) THEN [acc EXCEPT !.raised = TRUE]
                  ELSE IF \E i \in 1..Len(acc.calls) : acc.calls[i].id = line.id
                  THEN [acc EXCEPT !.results = Put(acc.results, line.id, line)]
                  ELSE acc
             ELSE acc
    ELSE acc

\* One pass of the "for line in lines" loop of parse_streaming_response
\* (final.py).  acc.raised: an exception left the inner try (only
\* JSONDecodeError and KeyError are caught there).
ParseLine(acc, line) ==
    IF acc.raised THEN acc
    ELSE IF line.j = J_BAD THEN acc
    ELSE IF line.p = "0" THEN
        IF line.j = J_STR THEN [acc EXCEPT !.content = acc.content \o line.c] ELSE acc
    ELSE IF line.p = "9" THEN
        [acc EXCEPT !.calls = Append(acc.calls, line)]
    ELSE IF line.p = "a" THEN
        IF line.j # J_OBJ THEN [acc EXCEPT !.raised = TRUE]
        ELSE IF Truthy(line.id)
             THEN IF Unhashable(line.id) THEN [acc EXCEPT !.raised = TRUE]
                  ELSE [acc EXCEPT !.results = Put(acc.results, line.id, line)]
             ELSE acc
    ELSE acc

RECURSIVE ParseLines(_, _)
ParseLines(acc, lines) ==
    IF lines = << >> THEN acc
    ELSE ParseLines(ParseLine(acc, Head(lines)), Tail(lines))

\* {**tool_call, 'result': tool_results[id].get('result', {}), 'state': 'completed'}
\* or {**tool_call, 'state': 'pending'}
CombineTool(call, results) ==
    IF call.id \in DOMAIN results
    THEN [toolCallId |-> call.id, toolName |-> call.name,
          result |-> IF results[call.id].res = R_ABSENT THEN R_EMPTY ELSE results[call.id].res,
          state |-> "completed"]
    ELSE [toolCallId |-> call.id, toolName |-> call.name, result |-> R_ABSENT,
          state |-> "pending"]

\* The assistant message record (its fresh id left out).
AssistantMessage(content, tools) ==
    [role |-> "assistant", content |-> content, toolInvocations |-> tools]

\* tool_call.get('toolCallId') raises AttributeError on a call that is no
\* object, and "tool_call_id in tool_results" raises TypeError on an id that
\* cannot be hashed.
BadCall(calls) ==
    \E i \in 1..Len(calls) : calls[i].j # J_OBJ \/ Unhashable(calls[i].id)

\* "Combine tool calls with their results"
CombineTools(calls, results) == [i \in 1..Len(calls) |-> CombineTool(calls[i], results)]

\* "Create assistant message" and the parser's return value.
ParseResult(content, combined) ==
    [error |-> FALSE,
     content |-> content,
     tool_invocations |-> combined,
     assistant_message |->
         IF content # "" \/ combined # << >>
         THEN <<AssistantMessage(content, combined)>>
         ELSE << >>]

\* What follows the loop: the outer except, or the merge and the result.
AfterParseLoop(acc) ==
    IF acc.raised \/ BadCall(acc.calls) THEN ParseError
    ELSE ParseResult(acc.content, CombineTools(acc.calls, acc.results))

\* TelegramBot.parse_streaming_response (final.py)
parse_streaming_response(lines) ==
    AfterParseLoop(ParseLines([content |-> "", calls |-> << >>, results |-> EmptyDict,
                               raised |-> FALSE], lines))

(***************************************************************************)
(* The scoring response (analyze_twitter).  A line of its body is          *)
(*   p     "a", "0" or another prefix ("x")                                *)
(*   j     for an "a" line, what json.loads gives (as above)               *)
(*   data  for an "a" object: D_NONE (no 'result', or no 'data' in it),    *)
(*         D_RESULT_SCALAR ('result' is a number or null: the 'in' test    *)
(*         raises TypeError), D_DIGITS (a string of digits), D_NUMBER (an  *)
(*         int or float), D_OTHER (anything else);                         *)
(*         for a "0" line: D_DIGITS when line[2:].strip('"') is all        *)
(*         digits, else D_OTHER                                            *)
(*   n     the integer that int(...) gives for D_DIGITS and D_NUMBER       *)
(***************************************************************************)
D_NONE == "no_data"
D_RESULT_SCALAR == "result_is_scalar"
D_DIGITS == "digit_string"
D_NUMBER == "number"
D_OTHER == "other"

ScoreLine(p, j, data, n) == [p |-> p, j |-> j, data |-> data, n |-> n]

\* One pass of the loop of parse_twitter_scoring_response.  The inner try
\* catches JSONDecodeError, KeyError and ValueError; a TypeError leaves it.
ScoreStep(acc, line) ==
    IF acc.raised THEN acc
    ELSE IF line.p = "a" THEN
        IF line.j = J_BAD THEN acc
        ELSE IF line.j = J_SCALAR THEN [acc EXCEPT !.raised = TRUE]
        ELSE IF line.j = J_STR THEN acc
        ELSE IF line.data = D_RESULT_SCALAR THEN [acc EXCEPT !.raised = TRUE]
        ELSE IF line.data \in {D_DIGITS, D_NUMBER} THEN [acc EXCEPT !.score = line.n]
        ELSE acc
    ELSE IF line.p = "0" THEN
        IF line.data = D_DIGITS THEN [acc EXCEPT !.score = line.n] ELSE acc
    ELSE acc

RECURSIVE ScoreLoop(_, _)
ScoreLoop(acc, lines) ==
    IF lines = << >> THEN acc
    ELSE ScoreLoop(ScoreStep(acc, Head(lines)), Tail(lines))

\* A faulty AfterScoreLoop: the score read so far is returned although a
\* line made the parser raise.
AfterScoreLoop_keep_score(acc) == acc.score

\* What follows the loop: "return score", or the outer except's "return 1".
AfterScoreLoop(acc) == IF acc.raised THEN 1 ELSE acc.score

\* TelegramBot.parse_twitter_scoring_response (final.py) and
\* TelegramBot.parse_streaming_response (chatbot.py): the same code.
\* body.readable = FALSE: "await response.text()" raises.
parse_twitter_scoring_response(body) ==
    IF ~body.readable THEN 1
    ELSE AfterScoreLoop(ScoreLoop([score |-> 1, raised |-> FALSE], body.lines))

\* What the scoring request meets: resp.k is "raise" (the POST raises: no
\* network, timeout), "status" (a status other than 200) or "body" (200).
\* TelegramBot.analyze_twitter returns {"score": ...}; this is the score.
analyze_twitter(resp) ==
    IF resp.k = "raise" THEN 1
    ELSE IF resp.k = "status" THEN 1
    ELSE parse_twitter_scoring_response(resp.body)

\* A line of the scoring body that makes the parser raise past its inner try.
RaisingScoreLine(line) ==
    line.p = "a" /\ (line.j = J_SCALAR \/ (line.j = J_OBJ /\ line.data = D_RESULT_SCALAR))

\* A line of the scoring body that carries no score: malformed JSON, another
\* prefix, or a payload that is no number.
NoScoreLine(line) ==
    \/ line.p \notin {"a", "0"}
    \/ line.p = "a" /\ (line.j \in {J_BAD, J_STR} \/ (line.j = J_OBJ /\ line.data \in {D_NONE, D_OTHER}))
    \/ line.p = "0" /\ line.data # D_DIGITS

\* How the scoring request ended, read off the response alone:
\*   "raise", "status"   as resp.k
\*   "unreadable"        "await response.text()" raises
\*   "unparsable"        some line raises in the parser, or no line carries a score
\*   "scored"            otherwise
ScoringKind(resp) ==
    IF resp.k # "body" THEN resp.k
    ELSE IF ~resp.body.readable THEN "unreadable"
    ELSE IF \/ \E i \in 1..Len(resp.body.lines) : RaisingScoreLine(resp.body.lines[i])
            \/ \A i \in 1..Len(resp.body.lines) : NoScoreLine(resp.body.lines[i])
    THEN "unparsable"
    ELSE "scored"

(***************************************************************************)
(* The chain, as execute_transaction meets it: chain.fail_at names the     *)
(* call that raises ("none": none does), chain.estimate_ok whether         *)
(* estimate_gas answers, chain.estimate what it answers.                   *)
(***************************************************************************)
DEFAULT_GAS == 200000

ChainCalls == <<"get_transaction_count", "estimate_gas", "gas_price",
                "sign_transaction", "send_raw_transaction",
                "wait_for_transaction_receipt">>

FailPoints ==
    {"none", "get_transaction_count", "gas_price", "sign_transaction",
     "send_raw_transaction", "wait_for_transaction_receipt"}

Chains ==
    [fail_at : FailPoints, estimate_ok : BOOLEAN, estimate : {52000}]

NoTx == [calls |-> << >>, gas |-> 0, estimate_failed |-> FALSE, raised |-> FALSE]

\* The position of a call in ChainCalls.
CallIndex(c) == CHOOSE i \in 1..Len(ChainCalls) : ChainCalls[i] = c

\* A faulty version in which a failed gas estimation is raised like any
\* other failure.
TxUpTo_estimate_raises(chain, last) ==
    [calls |-> SubSeq(ChainCalls, 1, IF last >= 2 /\ ~chain.estimate_ok THEN 2 ELSE last),
     gas |-> IF last < 2 \/ ~chain.estimate_ok THEN 0 ELSE chain.estimate,
     estimate_failed |-> last >= 2 /\ ~chain.estimate_ok,
     raised |-> chain.fail_at # "none" \/ (last >= 2 /\ ~chain.estimate_ok)]

\* The calls made when the one at position last is the last one; the gas
\* of the transaction ("except Exception: tx_dict['gas'] = 200000").
TxUpTo(chain, last) ==
    [calls |-> SubSeq(ChainCalls, 1, last),
     gas |-> IF last < 2 THEN 0
             ELSE IF chain.estimate_ok THEN chain.estimate ELSE DEFAULT_GAS,
     estimate_failed |-> last >= 2 /\ ~chain.estimate_ok,
     raised |-> chain.fail_at # "none"]

\* TelegramBot.execute_transaction (final.py): the external calls made, in
\* order, up to and including the one that raises; the gas put in the
\* transaction; whether the function raises (it re-raises what it catches).
execute_transaction(chain) ==
    TxUpTo(chain, IF chain.fail_at = "none" THEN Len(ChainCalls)
                  ELSE CallIndex(chain.fail_at))

\* account.sign_transaction returned
Signed(tx) ==
    \E i \in 1..Len(tx.calls) :
        tx.calls[i] = "sign_transaction" /\ (i < Len(tx.calls) \/ ~tx.raised)

\* w3.eth.send_raw_transaction returned: the transaction is on the network
Broadcast(tx) ==
    \E i \in 1..Len(tx.calls) :
        tx.calls[i] = "send_raw_transaction" /\ (i < Len(tx.calls) \/ ~tx.raised)

(***************************************************************************)
(* process_tool_invocations                                                *)
(***************************************************************************)
TOOL_SWAP == "swap"
TOOL_TX == "generate-evm-tx"
TOOL_OTHER == "get-quote"

\* One pass of "for inv in tool_invocations".
ToolStep(acc, inv) ==
    IF acc.raised THEN acc
    ELSE IF inv.toolName = TOOL_SWAP THEN
        IF InRaises(ResultOf(inv)) THEN [acc EXCEPT !.raised = TRUE]
        ELSE IF HasData(ResultOf(inv)) THEN [acc EXCEPT !.swap_data = ResultOf(inv)]
        ELSE acc
    ELSE IF inv.toolName = TOOL_TX THEN
        IF InRaises(ResultOf(inv)) THEN [acc EXCEPT !.raised = TRUE]
        ELSE IF HasEvmSignRequest(ResultOf(inv)) THEN [acc EXCEPT !.tx_data = ResultOf(inv)]
        ELSE acc
    ELSE acc

RECURSIVE ToolLoop(_, _)
ToolLoop(acc, invs) ==
    IF invs = << >> THEN acc
    ELSE ToolLoop(ToolStep(acc, Head(invs)), Tail(invs))

\* The kinds of result of process_tool_invocations.
P_NO_PENDING == "No pending swap transaction found"
P_NO_WALLET == "No wallet configured - cannot execute transactions"
P_SUCCESS == "success"
P_TX_FAILED == "Transaction failed"
P_SWAP_NO_TX == "Swap data found but no transaction to execute"
P_NO_EXECUTABLE == "No executable transaction found in tool results"
P_RAISED == "raised"

ProcessResult(kind, tx) == [kind |-> kind, tx |-> tx]

\* "try: tx_hash = await self.execute_transaction(...)" and what is returned.
TxResult(tx) ==
    IF tx.raised THEN ProcessResult(P_TX_FAILED, tx) ELSE ProcessResult(P_SUCCESS, tx)

\* A faulty continuation: execute_transaction is called for every entry of
\* params, one after the other.
AfterToolLoop_each_param(acc, chain) ==
    IF acc.raised THEN ProcessResult(P_RAISED, NoTx)
    ELSE IF acc.tx_data # R_ABSENT /\ NumParams(acc.tx_data) > 0
    THEN TxResult([execute_transaction(chain) EXCEPT
                      !.calls = IF NumParams(acc.tx_data) > 1 THEN @ \o @ ELSE @])
    ELSE IF acc.swap_data # R_ABSENT THEN ProcessResult(P_SWAP_NO_TX, NoTx)
    ELSE ProcessResult(P_NO_EXECUTABLE, NoTx)

\* What follows the loop over the invocations.
AfterToolLoop(acc, chain) ==
    IF acc.raised THEN ProcessResult(P_RAISED, NoTx)
    ELSE IF acc.tx_data # R_ABSENT /\ NumParams(acc.tx_data) > 0
    THEN TxResult(execute_transaction(chain))
    ELSE IF acc.swap_data # R_ABSENT THEN ProcessResult(P_SWAP_NO_TX, NoTx)
    ELSE ProcessResult(P_NO_EXECUTABLE, NoTx)

\* A faulty process_tool_invocations: "Check if we have a wallet configured"
\* is left out.
process_tool_invocations_unchecked(data, user_id, key, chain) ==
    IF ~Has(data, user_id) \/ ~Has(data[user_id], "pending_tool_invocations")
    THEN ProcessResult(P_NO_PENDING, NoTx)
    ELSE AfterToolLoop(
             ToolLoop([swap_data |-> R_ABSENT, tx_data |-> R_ABSENT, raised |-> FALSE],
                      data[user_id]["pending_tool_invocations"]),
             chain)

\* TelegramBot.process_tool_invocations (final.py).  data: self.user_data;
\* key: self.w3 and self.account are set.  kind P_RAISED: an exception
\* leaves the function.
process_tool_invocations(data, user_id, key, chain) ==
    IF ~Has(data, user_id) \/ ~Has(data[user_id], "pending_tool_invocations")
    THEN ProcessResult(P_NO_PENDING, NoTx)
    ELSE IF ~key THEN ProcessResult(P_NO_WALLET, NoTx)
    ELSE AfterToolLoop(
             ToolLoop([swap_data |-> R_ABSENT, tx_data |-> R_ABSENT, raised |-> FALSE],
                      data[user_id]["pending_tool_invocations"]),
             chain)

\* The fields cleanup_user_data keeps, out of a user's dict.
KeptFields(old) ==
    [k \in {f \in {"wallet_address", "session_id"} : Has(old, f)} |-> old[k]]

\* TelegramBot.cleanup_user_data (final.py): the new self.user_data.
cleanup_user_data(data, user_id) ==
    IF ~Has(data, user_id) THEN data
    ELSE Put(data, user_id, KeptFields(data[user_id]))

(***************************************************************************)
(* The handlers of final.py.  A handler is a function from the bot's       *)
(* fields (self) and the update's inputs to an outcome: the new fields,    *)
(* the messages sent to the user, the POSTs made, what the remote agent    *)
(* and the chain answered, and whether an exception left the handler.      *)
(***************************************************************************)
Out(self) ==
    [self |-> self, replies |-> << >>, posts |-> 0, raised |-> FALSE,
     upstream |-> "none", scoring |-> "none", result |-> "none", tx |-> NoTx]

Reply(out, msg) == [out EXCEPT !.replies = Append(out.replies, msg)]

SetState(self, u, s) == [self EXCEPT !.user_states = Put(self.user_states, u, s)]

SetField(self, u, k, v) ==
    [self EXCEPT !.user_data = Put(self.user_data, u, Put(self.user_data[u], k, v))]

\* What the swap-intent request meets: up.k is "raise" (the POST raises: no
\* network, timeout), "status" (a status other than 200) or "body" (200,
\* with the lines of the body).
UserMessage(prize_amount, request) ==
    [role |-> "user", content |-> <<prize_amount, request>>, toolInvocations |-> << >>]

\* What send_to_bitte_ai gives back: the new fields, the response (the
\* parser's result, or an error result), the POSTs made, how the request ended.
Sent(self, response, posts, upstream) ==
    [self |-> self, response |-> response, posts |-> posts, upstream |-> upstream]

\* A faulty version that keeps, of the history, only the latest exchange.
Received_latest_only(self, user_id, parsed) ==
    Sent([self EXCEPT !.chat_histories =
              Put(self.chat_histories, user_id,
                  <<self.chat_histories[user_id][Len(self.chat_histories[user_id])]>>
                      \o parsed.assistant_message)],
         parsed, 1, IF parsed.error THEN "parse_error" ELSE "ok")

\* "Add assistant message to history if we got one" and the return.
Received(self, user_id, parsed) ==
    Sent([self EXCEPT !.chat_histories =
              Put(self.chat_histories, user_id,
                  self.chat_histories[user_id] \o parsed.assistant_message)],
         parsed, 1, IF parsed.error THEN "parse_error" ELSE "ok")

\* The POST and what follows it.
Post(self, user_id, up) ==
    IF up.k = "raise" THEN Sent(self, ParseError, 1, "raise")
    ELSE IF up.k = "status" THEN Sent(self, ParseError, 1, "status")
    ELSE Received(self, user_id, parse_streaming_response(up.lines))

\* "Generate unique session ID if not exists": a KeyError when the user has
\* no dict, caught by the function's except.
AfterUserMessage(self, user_id, up, sid) ==
    IF Has(Get(self.user_data, user_id, EmptyDict), "session_id")
    THEN Post(self, user_id, up)
    ELSE IF ~Has(self.user_data, user_id) THEN Sent(self, ParseError, 0, "key_error")
    ELSE Post(SetField(self, user_id, "session_id", sid), user_id, up)

\* TelegramBot.send_to_bitte_ai (final.py).  user_msg: the record made of
\* the text; sid: the uuid4 drawn for a new session id.
send_to_bitte_ai(self, user_id, user_msg, up, sid) ==
    AfterUserMessage(
        [self EXCEPT !.chat_histories =
             Put(self.chat_histories, user_id,
                 Append(Get(self.chat_histories, user_id, << >>), user_msg))],
        user_id, up, sid)

\* any(inv.get('toolName') in ["swap", "generate-evm-tx"] for inv in tool_invocations)
has_swap_tool(tool_invocations) ==
    \E i \in 1..Len(tool_invocations) :
        tool_invocations[i].toolName \in {TOOL_SWAP, TOOL_TX}

\* The outcome so far once send_to_bitte_ai has returned.
Sending(sent) ==
    [Reply(Out(sent.self), "processing_swap") EXCEPT
        !.posts = sent.posts, !.upstream = sent.upstream]

\* "Store the tool invocations for execution if confirmed" and the reply,
\* with the confirmation keyboard when a swap tool was invoked.
StorePending(out, user_id, tool_invocations) ==
    IF has_swap_tool(tool_invocations)
    THEN Reply([out EXCEPT !.self =
                   [SetState(SetField(out.self, user_id, "pending_tool_invocations",
                                      tool_invocations),
                             user_id, WAITING_FOR_SWAP_CONFIRMATION)
                    EXCEPT !.keyboards[user_id] = @ + 1]],
               "confirm_prompt")
    ELSE Reply([out EXCEPT !.self = SetField(out.self, user_id, "pending_tool_invocations",
                                             tool_invocations)],
               "try_another")

\* A faulty AfterSend: the tool invocations are stored before the error
\* field is looked at.
AfterSend_store_first(sent, user_id) ==
    IF sent.response.error
    THEN Reply([Sending(sent) EXCEPT
                   !.self = SetField(sent.self, user_id, "pending_tool_invocations",
                                     sent.response.tool_invocations)],
               "api_error")
    ELSE StorePending(Sending(sent), user_id, sent.response.tool_invocations)

\* handle_swap_request from "if 'error' in response_data" on.
AfterSend(sent, user_id) ==
    IF sent.response.error THEN Reply(Sending(sent), "api_error")
    ELSE StorePending(Sending(sent), user_id, sent.response.tool_invocations)

\* TelegramBot.handle_swap_request (final.py)
handle_swap_request(self, user_id, request, up, sid) ==
    IF ~Has(self.user_data, user_id) \/ ~Has(self.user_data[user_id], "prize_amount")
    THEN Reply(Out(self), "missing_prize")
    ELSE IF ~Has(self.user_data[user_id], "wallet_address")
    THEN [Out(self) EXCEPT !.raised = TRUE]
    ELSE AfterSend(send_to_bitte_ai(
                       self, user_id,
                       UserMessage(self.user_data[user_id]["prize_amount"], request),
                       up, sid),
                   user_id)

\* The swap handlers once process_tool_invocations has returned r: the
\* report to the user and "Reset state", or the exception going on up.
AfterProcess(self, user_id, r) ==
    IF r.kind = P_RAISED
    THEN [Reply(Out(self), "executing") EXCEPT
             !.result = r.kind, !.tx = r.tx, !.raised = TRUE]
    ELSE [Reply(Reply(Out([SetState(self, user_id, IDLE) EXCEPT
                              !.user_data = cleanup_user_data(self.user_data, user_id)]),
                      "executing"),
                IF r.kind = P_SUCCESS THEN "tx_complete" ELSE "tx_failed")
          EXCEPT !.result = r.kind, !.tx = r.tx]

\* The common body of execute_bitte_swap and execute_bitte_swap_from_message.
ExecuteSwap(self, user_id, key, chain) ==
    AfterProcess(self, user_id,
                 process_tool_invocations(self.user_data, user_id, key, chain))

\* TelegramBot.execute_bitte_swap (final.py): the confirm button
execute_bitte_swap(self, user_id, key, chain) == ExecuteSwap(self, user_id, key, chain)

\* TelegramBot.execute_bitte_swap_from_message (final.py): a confirming text
execute_bitte_swap_from_message(self, user_id, key, chain) ==
    ExecuteSwap(self, user_id, key, chain)

\* A faulty cancel_swap: the cancel ends the flow as a confirm does.
cancel_swap_cleanup(self, user_id) ==
    Reply(Out([SetState(self, user_id, IDLE) EXCEPT
                  !.user_data = cleanup_user_data(self.user_data, user_id)]),
          "cancelled")

\* TelegramBot.cancel_swap (final.py): the cancel button
cancel_swap(self, user_id) ==
    Reply(Out(SetState(self, user_id, WAITING_FOR_SWAP_REQUEST)), "cancelled")

\* TelegramBot.cancel_swap_from_message (final.py): a cancelling text
cancel_swap_from_message(self, user_id) ==
    Reply(Out(SetState(self, user_id, WAITING_FOR_SWAP_REQUEST)), "cancelled")

\* TelegramBot.handle_twitter_url (final.py)
handle_twitter_url(self, url, user_id) ==
    IF ~is_valid_twitter_url(url) THEN Reply(Out(self), "bad_url")
    ELSE IF ~Has(self.user_data, user_id) THEN [Out(self) EXCEPT !.raised = TRUE]
    ELSE Reply(Out(SetState(SetField(self, user_id, "twitter_url", url),
                            user_id, WAITING_FOR_WALLET_ADDRESS)),
               "url_ok")

\* handle_wallet_address once analyze_twitter has returned: the score, the
\* state and the prize.  prize_amount (score * 0.1 USDC) is kept in tenths of USDC.
Scored(self, user_id, score, kind) ==
    [Reply(Reply(Out(SetState(SetField(SetField(self, user_id, "score", score),
                                       user_id, "prize_amount", score),
                              user_id, WAITING_FOR_SWAP_REQUEST)),
                 "processing"),
           "score")
     EXCEPT !.posts = 1, !.scoring = kind]

\* A faulty handle_wallet_address: the address is stored before it is validated.
handle_wallet_address_store_first(self, wallet_address, user_id, resp) ==
    IF ~Has(self.user_data, user_id) THEN [Out(self) EXCEPT !.raised = TRUE]
    ELSE IF ~is_valid_wallet_address(wallet_address)
    THEN Reply(Out(SetField(self, user_id, "wallet_address", wallet_address)), "bad_wallet")
    ELSE IF ~Has(self.user_data[user_id], "twitter_url")
    THEN [Reply(Out(SetField(self, user_id, "wallet_address", wallet_address)),
                "processing")
          EXCEPT !.raised = TRUE]
    ELSE Scored(SetField(self, user_id, "wallet_address", wallet_address), user_id,
                analyze_twitter(resp), ScoringKind(resp))

\* TelegramBot.handle_wallet_address (final.py).  resp: what the scoring
\* request meets.
handle_wallet_address(self, wallet_address, user_id, resp) ==
    IF ~is_valid_wallet_address(wallet_address) THEN Reply(Out(self), "bad_wallet")
    ELSE IF ~Has(self.user_data, user_id) THEN [Out(self) EXCEPT !.raised = TRUE]
    ELSE IF ~Has(self.user_data[user_id], "twitter_url")
    THEN [Reply(Out(SetField(self, user_id, "wallet_address", wallet_address)),
                "processing")
          EXCEPT !.raised = TRUE]
    ELSE Scored(SetField(self, user_id, "wallet_address", wallet_address), user_id,
                analyze_twitter(resp), ScoringKind(resp))

\* A faulty handle_message: a text in the IDLE state is answered with the
\* prompt and begins the flow, as /start does.
handle_message_idle_starts(self, user_id, user_message, addressed, resp, up, sid, key, chain) ==
    IF ~addressed THEN Out(self)
    ELSE IF StateOf(self.user_states, user_id) = WAITING_FOR_TWITTER_URL
    THEN handle_twitter_url(self, user_message, user_id)
    ELSE IF StateOf(self.user_states, user_id) = WAITING_FOR_WALLET_ADDRESS
    THEN handle_wallet_address(self, user_message, user_id, resp)
    ELSE IF StateOf(self.user_states, user_id) = WAITING_FOR_SWAP_REQUEST
    THEN handle_swap_request(self, user_id, user_message, up, sid)
    ELSE IF StateOf(self.user_states, user_id) = WAITING_FOR_SWAP_CONFIRMATION
    THEN IF IsConfirmText(user_message)
         THEN execute_bitte_swap_from_message(self, user_id, key, chain)
         ELSE IF IsCancelText(user_message)
         THEN cancel_swap_from_message(self, user_id)
         ELSE handle_swap_request(self, user_id, user_message, up, sid)
    ELSE Reply(Out(SetState(self, user_id, WAITING_FOR_TWITTER_URL)), "use_start")

\* TelegramBot.handle_message (final.py).  addressed: the chat is private,
\* or the message mentions the bot or replies to one of its messages;
\* user_message is the text with the mention removed.
handle_message(self, user_id, user_message, addressed, resp, up, sid, key, chain) ==
    IF ~addressed THEN Out(self)
    ELSE IF StateOf(self.user_states, user_id) = WAITING_FOR_TWITTER_URL
    THEN handle_twitter_url(self, user_message, user_id)
    ELSE IF StateOf(self.user_states, user_id) = WAITING_FOR_WALLET_ADDRESS
    THEN handle_wallet_address(self, user_message, user_id, resp)
    ELSE IF StateOf(self.user_states, user_id) = WAITING_FOR_SWAP_REQUEST
    THEN handle_swap_request(self, user_id, user_message, up, sid)
    ELSE IF StateOf(self.user_states, user_id) = WAITING_FOR_SWAP_CONFIRMATION
    THEN IF IsConfirmText(user_message)
         THEN execute_bitte_swap_from_message(self, user_id, key, chain)
         ELSE IF IsCancelText(user_message)
         THEN cancel_swap_from_message(self, user_id)
         ELSE handle_swap_request(self, user_id, user_message, up, sid)
    ELSE Reply(Out(self), "use_start")

\* TelegramBot.handle_callback (final.py).  data: the button's callback
\* data, "confirm_swap_<id>" or "cancel_swap"; user_id: query.from_user.id.
handle_callback(self, user_id, data, key, chain) ==
    IF data = "confirm_swap_" THEN execute_bitte_swap(self, user_id, key, chain)
    ELSE IF data = "cancel_swap" THEN cancel_swap(self, user_id)
    ELSE Out(self)

\* A /start that leaves the user's stored data as it is.
start_keep_data(self, user_id) ==
    Reply(Out([SetState(self, user_id, WAITING_FOR_TWITTER_URL) EXCEPT
                  !.chat_histories = Put(self.chat_histories, user_id, << >>)]),
          "welcome")

\* A /start that re-creates both dictionaries for the one user.
start_reset_all(self, user_id) ==
    Reply(Out([SetState(self, user_id, WAITING_FOR_TWITTER_URL) EXCEPT
                  !.user_data = Put(EmptyDict, user_id, EmptyDict),
                  !.chat_histories = Put(EmptyDict, user_id, << >>)]),
          "welcome")

\* TelegramBot.start (final.py)
start(self, user_id) ==
    Reply(Out([SetState(self, user_id, WAITING_FOR_TWITTER_URL) EXCEPT
                  !.user_data = Put(self.user_data, user_id, EmptyDict),
                  !.chat_histories = Put(self.chat_histories, user_id, << >>)]),
          "welcome")

\* TelegramBot.help (final.py)
help(self, user_id) == Reply(Out(self), "help")

\* TelegramBot.reset_conversation (final.py)
reset_conversation(self, user_id) ==
    IF Has(self.user_states, user_id)
    THEN Reply(Out([SetState(self, user_id, IDLE) EXCEPT
                       !.chat_histories = Put(self.chat_histories, user_id, << >>)]),
               "reset_ok")
    ELSE Reply(Out(self), "reset_none")

\* TelegramBot.show_wallet_info (final.py)
show_wallet_info(self, user_id) ==
    IF ~Has(self.user_data, user_id) \/ ~Has(self.user_data[user_id], "wallet_address")
    THEN Reply(Out(self), "no_wallet_info")
    ELSE Reply(Out(self), "wallet_info")

(***************************************************************************)
(* The inputs of the model.                                                *)
(***************************************************************************)
MaxScoreLines == 2

SeqsUpTo(S, n) == UNION {[1..k -> S] : k \in 0..n}

ScoreValues == {0, 7}

ScoreLines ==
    {ScoreLine("a", J_BAD, D_NONE, 0), ScoreLine("a", J_SCALAR, D_NONE, 0),
     ScoreLine("a", J_OBJ, D_NONE, 0), ScoreLine("a", J_OBJ, D_RESULT_SCALAR, 0),
     ScoreLine("a", J_OBJ, D_OTHER, 0), ScoreLine("0", J_STR, D_OTHER, 0),
     ScoreLine("x", J_BAD, D_NONE, 0)}
    \cup {ScoreLine("a", J_OBJ, D_DIGITS, n) : n \in ScoreValues}
    \cup {ScoreLine("a", J_OBJ, D_NUMBER, n) : n \in ScoreValues}
    \cup {ScoreLine("0", J_STR, D_DIGITS, n) : n \in ScoreValues}

NoBody == [readable |-> FALSE, lines |-> << >>]

ScoreResponses ==
    {[k |-> "raise", body |-> NoBody], [k |-> "status", body |-> NoBody],
     [k |-> "body", body |-> NoBody]}
    \cup {[k |-> "body", body |-> [readable |-> TRUE, lines |-> ls]] :
            ls \in SeqsUpTo(ScoreLines, MaxScoreLines)}

\* Bodies of the swap-intent response.
B_EMPTY == << >>
B_TEXT == <<TextLine("Which token?")>>
B_SWAP_TX ==
    <<TextLine("Quote: "), CallLine("c1", TOOL_SWAP), ResultLine("c1", R_SWAP),
      CallLine("c2", TOOL_TX), ResultLine("c2", R_TX), TextLine("ready")>>
B_TX_MANY ==
    <<CallLine("c1", TOOL_TX), ResultLine("c1", R_TX),
      CallLine("c2", TOOL_TX), ResultLine("c2", R_TX_MANY)>>
B_SWAP_ONLY == <<CallLine("c1", TOOL_SWAP), ResultLine("c1", R_SWAP)>>
B_TX_PENDING == <<CallLine("c2", TOOL_TX), BadLine("a")>>
B_QUOTE == <<CallLine("c1", TOOL_OTHER), ResultLine("c1", R_TEXT)>>
B_SCALAR_RESULT == <<CallLine("c1", TOOL_SWAP), ResultLine("c1", R_SCALAR)>>
B_SCALAR_CALL == <<TextLine("Quote: "), ScalarLine("9")>>
B_SCALAR_ANSWER == <<CallLine("c1", TOOL_SWAP), ScalarLine("a")>>

Bodies ==
    {B_EMPTY, B_SWAP_TX, B_TX_MANY, B_SWAP_ONLY, B_TX_PENDING, B_QUOTE,
     B_SCALAR_RESULT, B_SCALAR_CALL, B_SCALAR_ANSWER}

Upstreams ==
    {[k |-> "raise", lines |-> << >>], [k |-> "status", lines |-> << >>]}
    \cup {[k |-> "body", lines |-> b] : b \in Bodies}

\* The values uuid4 may give for a session id.
SessionIds == {"uuid-1"}

(***************************************************************************)
(* The state machine of final.py.                                          *)
(***************************************************************************)
Self ==
    [user_states |-> user_states, user_data |-> user_data,
     chat_histories |-> chat_histories, keyboards |-> keyboards]

NoEvent ==
    [op |-> "none", user |-> 0, text |-> "", data |-> "", owner |-> 0,
     addressed |-> TRUE, pre |-> IDLE, out |-> Out(<< >>)]

\* The update just handled: the handler (op), who sent it, its text or
\* callback data, the state it found, and the outcome less the new fields.
Event(op, u, text, data, owner, addressed, out) ==
    [op |-> op, user |-> u, text |-> text, data |-> data, owner |-> owner,
     addressed |-> addressed, pre |-> StateOf(user_states, u),
     out |-> [out EXCEPT !.self = << >>]]

\* The bounds on what the model lets grow.
WithinBounds(self) ==
    /\ \A u \in DOMAIN self.chat_histories : Len(self.chat_histories[u]) <= MaxHist
    /\ \A u \in DOMAIN self.keyboards : self.keyboards[u] <= MaxKeyboards

Apply(out, e) ==
    /\ WithinBounds(out.self)
    /\ user_states' = out.self.user_states
    /\ user_data' = out.self.user_data
    /\ chat_histories' = out.self.chat_histories
    /\ keyboards' = out.self.keyboards
    /\ ev' = e
    /\ UNCHANGED <<has_key, program, pref_text, pref_result, response_text,
                   parsed_response>>

AnyChain == [fail_at |-> "none", estimate_ok |-> TRUE, estimate |-> 52000]
AnyUp == [k |-> "raise", lines |-> << >>]
AnyResp == [k |-> "raise", body |-> NoBody]
AnySid == "uuid-1"

Init ==
    /\ program = "final"
    /\ user_states = EmptyDict
    /\ user_data = EmptyDict
    /\ chat_histories = EmptyDict
    /\ keyboards = [u \in Users |-> 0]
    /\ has_key \in BOOLEAN
    /\ ev = NoEvent
    /\ pref_text = NoPreference
    /\ pref_result = NotParsed
    /\ response_text = << >>
    /\ parsed_response = NotParsed

\* An update handled: the fields and the event become what the handler gave.
Do(out, op, u, text, data, owner, addressed) ==
    Apply(out, Event(op, u, text, data, owner, addressed, out))

Start(u) ==
    /\ program = "final"
    /\ Do(start(Self, u), "start", u, "", "", 0, TRUE)

Help(u) ==
    /\ program = "final"
    /\ Do(help(Self, u), "help", u, "", "", 0, TRUE)

Wallet(u) ==
    /\ program = "final"
    /\ Do(show_wallet_info(Self, u), "wallet", u, "", "", 0, TRUE)

Reset(u) ==
    /\ program = "final"
    /\ Do(reset_conversation(Self, u), "reset", u, "", "", 0, TRUE)

Message(u, text, addressed, resp, up, sid, chain) ==
    Do(handle_message(Self, u, text, addressed, resp, up, sid, has_key, chain),
       "message", u, text, "", 0, addressed)

\* The texts tried in each state: every text the state's handler tells
\* apart, and one text where the handler does not read it.
TextsFor(state) ==
    CASE state = WAITING_FOR_TWITTER_URL -> {T_URL, T_NOSCHEME, T_WALLET, T_OTHER}
      [] state = WAITING_FOR_WALLET_ADDRESS -> {T_WALLET, T_SHORTHEX, T_URL, T_OTHER}
      [] state = WAITING_FOR_SWAP_REQUEST -> {T_OTHER}
      [] state = WAITING_FOR_SWAP_CONFIRMATION -> {T_YES, T_NO, T_OTHER}
      [] OTHER -> {T_OTHER}

\* A text message in a group chat that neither mentions the bot nor replies to it.
MessageNotAddressed(u) ==
    /\ program = "final"
    /\ Message(u, T_OTHER, FALSE, AnyResp, AnyUp, AnySid, AnyChain)

\* A text message that needs no answer from outside: in the awaiting-URL
\* and IDLE states, an invalid wallet address, a cancelling text.
MessagePlain(u) ==
    /\ program = "final"
    /\ \E text \in TextsFor(StateOf(user_states, u)) :
        /\ \/ StateOf(user_states, u) \in {WAITING_FOR_TWITTER_URL, IDLE}
           \/ /\ StateOf(user_states, u) = WAITING_FOR_WALLET_ADDRESS
              /\ ~is_valid_wallet_address(text)
           \/ /\ StateOf(user_states, u) = WAITING_FOR_SWAP_CONFIRMATION
              /\ ~IsConfirmText(text)
              /\ IsCancelText(text)
        /\ Message(u, text, TRUE, AnyResp, AnyUp, AnySid, AnyChain)

\* A valid wallet address in the awaiting-wallet state: the scoring request.
MessageWallet(u) ==
    /\ program = "final"
    /\ StateOf(user_states, u) = WAITING_FOR_WALLET_ADDRESS
    /\ \E text \in TextsFor(WAITING_FOR_WALLET_ADDRESS), resp \in ScoreResponses :
        /\ is_valid_wallet_address(text)
        /\ Message(u, text, TRUE, resp, AnyUp, AnySid, AnyChain)

\* A text message handled as a swap request.
MessageSwapRequest(u) ==
    /\ program = "final"
    /\ StateOf(user_states, u) \in {WAITING_FOR_SWAP_REQUEST, WAITING_FOR_SWAP_CONFIRMATION}
    /\ \E text \in TextsFor(StateOf(user_states, u)), up \in Upstreams, sid \in SessionIds :
        /\ StateOf(user_states, u) = WAITING_FOR_SWAP_CONFIRMATION =>
               ~IsConfirmText(text) /\ ~IsCancelText(text)
        /\ Message(u, text, TRUE, AnyResp, up, sid, AnyChain)

\* A confirming text in the awaiting-confirmation state.
MessageConfirm(u) ==
    /\ program = "final"
    /\ StateOf(user_states, u) = WAITING_FOR_SWAP_CONFIRMATION
    /\ \E text \in TextsFor(WAITING_FOR_SWAP_CONFIRMATION), chain \in Chains :
        /\ IsConfirmText(text)
        /\ Message(u, text, TRUE, AnyResp, AnyUp, AnySid, chain)

\* Editing the message the button is on removes its keyboard.
UseKeyboard(out, owner) == [out EXCEPT !.self.keyboards[owner] = @ - 1]

\* A press, by user u, of a button of a keyboard sent to user owner (in a
\* private chat u = owner).
Callback(u, owner) ==
    /\ program = "final"
    /\ keyboards[owner] > 0
    /\ \/ \E chain \in Chains :
            Do(UseKeyboard(handle_callback(Self, u, "confirm_swap_", has_key, chain), owner),
               "callback", u, "", "confirm_swap_", owner, TRUE)
       \/ Do(UseKeyboard(handle_callback(Self, u, "cancel_swap", has_key, AnyChain), owner),
             "callback", u, "", "cancel_swap", owner, TRUE)

(***************************************************************************)
(* chatbot.py: the token-preference variant.                               *)
(*                                                                         *)
(* A preference text is modelled as a record: padded says whether white    *)
(* space surrounds it, tokens are its whitespace-separated tokens, each of *)
(* a kind:                                                                 *)
(*   K_NUM    digits ("70")                                                *)
(*   K_PCT    digits and a percent sign ("70%")                            *)
(*   K_NUMX   digits and then something else, no space between ("70,")     *)
(*   K_SYM    the letters of USDC, ETH or NATIVE in some case; s spells    *)
(*            them as written ("usdc")                                     *)
(*   K_SYMX   the same and then something else, no space between ("USDC,") *)
(*   K_WORD   anything else ("and")                                        *)
(***************************************************************************)
K_NUM == "digits"
K_PCT == "digits_percent"
K_NUMX == "digits_other"
K_SYM == "symbol"
K_SYMX == "symbol_other"
K_WORD == "word"

Symbols == {"NATIVE", "USDC", "ETH"}

Num(n) == [k |-> K_NUM, n |-> n, s |-> ""]
Pct(n) == [k |-> K_PCT, n |-> n, s |-> ""]
NumX(n) == [k |-> K_NUMX, n |-> n, s |-> ""]
Sym(s) == [k |-> K_SYM, n |-> 0, s |-> s]
SymX(s) == [k |-> K_SYMX, n |-> 0, s |-> s]
Word == [k |-> K_WORD, n |-> 0, s |-> ""]

\* str.upper, on the spellings of the symbols.
UpperOf(s) ==
    CASE s \in {"usdc", "Usdc"} -> "USDC"
      [] s \in {"eth", "Eth"} -> "ETH"
      [] s \in {"native", "Native"} -> "NATIVE"
      [] OTHER -> s

\* preference.upper()
Upper(text) ==
    [text EXCEPT !.tokens = [i \in 1..Len(text.tokens) |->
                                [text.tokens[i] EXCEPT !.s = UpperOf(@)]]]

\* preference.strip()
Strip(text) == [text EXCEPT !.padded = FALSE]

\* The token begins with one of the alternatives of (USDC|ETH|NATIVE).
BeginsWithSymbol(tok) == tok.k \in {K_SYM, K_SYMX} /\ tok.s \in Symbols

\* The token ends with one of them.
EndsWithSymbol(tok) == tok.k = K_SYM /\ tok.s \in Symbols

\* re.findall(r'(\d+)%?\s+(USDC|ETH|NATIVE)', preference): the (percentage,
\* token) pairs, from token i on.
RECURSIVE PercentageMatches(_, _)
PercentageMatches(tokens, i) ==
    IF i >= Len(tokens) THEN << >>
    ELSE IF tokens[i].k \in {K_NUM, K_PCT} /\ BeginsWithSymbol(tokens[i + 1])
    THEN <<[percentage |-> tokens[i].n, token |-> tokens[i + 1].s]>>
         \o PercentageMatches(tokens, i + 2)
    ELSE PercentageMatches(tokens, i + 1)

\* [(match[1], match[0]) for match in re.findall(r'(USDC|ETH|NATIVE)\s+(\d+)', preference)]
RECURSIVE SimpleMatches(_, _)
SimpleMatches(tokens, i) ==
    IF i >= Len(tokens) THEN << >>
    ELSE IF EndsWithSymbol(tokens[i]) /\ tokens[i + 1].k \in {K_NUM, K_PCT, K_NUMX}
    THEN <<[percentage |-> tokens[i + 1].n, token |-> tokens[i].s]>>
         \o SimpleMatches(tokens, i + 2)
    ELSE SimpleMatches(tokens, i + 1)

\* "matches", after both patterns were tried.
Matches(tokens) ==
    IF PercentageMatches(tokens, 1) # << >> THEN PercentageMatches(tokens, 1)
    ELSE SimpleMatches(tokens, 1)

\* A faulty loop: a token met again has its share replaced, not added to.
RECURSIVE Allocate_overwrite(_, _)
Allocate_overwrite(acc, matches) ==
    IF matches = << >> THEN acc
    ELSE Allocate_overwrite(
             [allocation |->
                  Put(acc.allocation, Head(matches).token, Head(matches).percentage),
              total |-> acc.total + Head(matches).percentage],
             Tail(matches))

\* A faulty loop: total_percentage grows only when a token is met first.
RECURSIVE Allocate_total_of_new(_, _)
Allocate_total_of_new(acc, matches) ==
    IF matches = << >> THEN acc
    ELSE Allocate_total_of_new(
             [allocation |->
                  Put(acc.allocation, Head(matches).token,
                      Get(acc.allocation, Head(matches).token, 0) + Head(matches).percentage),
              total |-> IF Has(acc.allocation, Head(matches).token) THEN acc.total
                        ELSE acc.total + Head(matches).percentage],
             Tail(matches))

\* "for percentage, token in matches": token_allocation and total_percentage.
RECURSIVE Allocate(_, _)
Allocate(acc, matches) ==
    IF matches = << >> THEN acc
    ELSE Allocate(
             [allocation |->
                  Put(acc.allocation, Head(matches).token,
                      Get(acc.allocation, Head(matches).token, 0) + Head(matches).percentage),
              total |-> acc.total + Head(matches).percentage],
             Tail(matches))

\* The results of parse_token_preference: an allocation, or a ValueError.
Allocation(allocation) == [ok |-> TRUE, allocation |-> allocation, error |-> "", total |-> 100]
ValueError(error, total) == [ok |-> FALSE, allocation |-> EmptyDict, error |-> error, total |-> total]

\* A faulty version: the remainder replaces the share NATIVE was given.
Normalize_remainder_only(acc) ==
    IF acc.total > 100 THEN ValueError("cannot exceed 100%", acc.total)
    ELSE IF acc.total < 100
    THEN Allocation(Put(acc.allocation, "NATIVE", 100 - acc.total))
    ELSE Allocation(acc.allocation)

\* A faulty version: "Validate total percentage" is left out.
Normalize_unvalidated(acc) ==
    IF acc.total < 100
    THEN Allocation(Put(acc.allocation, "NATIVE",
                        Get(acc.allocation, "NATIVE", 0) + (100 - acc.total)))
    ELSE Allocation(acc.allocation)

\* "Validate total percentage" and "If less than 100%, add remainder to NATIVE".
Normalize(acc) ==
    IF acc.total > 100 THEN ValueError("cannot exceed 100%", acc.total)
    ELSE IF acc.total < 100
    THEN Allocation(Put(acc.allocation, "NATIVE",
                        Get(acc.allocation, "NATIVE", 0) + (100 - acc.total)))
    ELSE Allocation(acc.allocation)

\* preference in ['NATIVE', 'USDC', 'ETH']
IsBareSymbol(text) ==
    ~text.padded /\ Len(text.tokens) = 1 /\ EndsWithSymbol(text.tokens[1])

\* parse_token_preference after its first line.
ParseUpperStripped(text) ==
    IF IsBareSymbol(text) THEN Allocation((text.tokens[1].s :> 100))
    ELSE IF Matches(text.tokens) = << >>
    THEN ValueError("Could not parse token allocation", 0)
    ELSE Normalize(Allocate([allocation |-> EmptyDict, total |-> 0], Matches(text.tokens)))

\* A faulty version: the text is upper-cased but not stripped.
parse_token_preference_unstripped(text) == ParseUpperStripped(Upper(text))

\* TelegramBot.parse_token_preference (chatbot.py)
parse_token_preference(text) == ParseUpperStripped(Strip(Upper(text)))

\* UserState (chatbot.py)
WAITING_FOR_TOKEN_PREFERENCE == "waiting_for_token_preference"

\* The texts of the chatbot model, and the tokens of each.
T_BLANK == ""
T_PREF_SPLIT == "70% USDC and 30% NATIVE"
T_PREF_BARE == "native"
T_PREF_SHORT == "40% USDC"
T_PREF_OVER == "60% USDC and 50% ETH"

Tokens(t) ==
    CASE t = T_PREF_SPLIT -> Text(FALSE, <<Pct(70), Sym("USDC"), Word, Pct(30), Sym("NATIVE")>>)
      [] t = T_PREF_BARE -> Text(FALSE, <<Sym("native")>>)
      [] t = T_PREF_SHORT -> Text(FALSE, <<Pct(40), Sym("USDC")>>)
      [] t = T_PREF_OVER -> Text(FALSE, <<Pct(60), Sym("USDC"), Word, Pct(50), Sym("ETH")>>)
      [] t = T_OTHER -> Text(FALSE, <<Word, Word, Word, Sym("ETH")>>)
      [] t = T_BLANK -> Text(FALSE, << >>)
      [] OTHER -> Text(FALSE, <<Word>>)

\* wallet_address.strip() is empty
IsBlank(t) == t = T_BLANK

\* A faulty start: the state is set, the user's dict is not made.
chat_start_no_record(self, user_id) ==
    Reply(Out(SetState(self, user_id, WAITING_FOR_TWITTER_URL)), "welcome")

\* TelegramBot.start (chatbot.py)
chat_start(self, user_id) ==
    Reply(Out([SetState(self, user_id, WAITING_FOR_TWITTER_URL) EXCEPT
                  !.user_data = Put(self.user_data, user_id, EmptyDict)]),
          "welcome")

\* TelegramBot.help (chatbot.py)
chat_help(self, user_id) == Reply(Out(self), "help")

\* TelegramBot.handle_twitter_url (chatbot.py)
chat_handle_twitter_url(self, url, user_id) ==
    IF ~is_valid_twitter_url(url) THEN Reply(Out(self), "bad_url")
    ELSE IF ~Has(self.user_data, user_id) THEN [Out(self) EXCEPT !.raised = TRUE]
    ELSE Reply(Out(SetState(SetField(self, user_id, "twitter_url", url),
                            user_id, WAITING_FOR_WALLET_ADDRESS)),
               "url_ok")

\* handle_wallet_address (chatbot.py) once analyze_twitter has returned.
ChatScored(self, user_id, score, kind) ==
    [Reply(Reply(Out(SetState(SetField(self, user_id, "score", score),
                              user_id, WAITING_FOR_TOKEN_PREFERENCE)),
                 "processing"),
           "score")
     EXCEPT !.posts = 1, !.scoring = kind]

\* TelegramBot.handle_wallet_address (chatbot.py)
chat_handle_wallet_address(self, wallet_address, user_id, resp) ==
    IF IsBlank(wallet_address) THEN Reply(Out(self), "bad_wallet")
    ELSE IF ~Has(self.user_data, user_id) THEN [Out(self) EXCEPT !.raised = TRUE]
    ELSE IF ~Has(self.user_data[user_id], "twitter_url")
    THEN [Reply(Out(SetField(self, user_id, "wallet_address", wallet_address)),
                "processing")
          EXCEPT !.raised = TRUE]
    ELSE ChatScored(SetField(self, user_id, "wallet_address", wallet_address), user_id,
                    analyze_twitter(resp), ScoringKind(resp))

\* del self.user_data[user_id]
Del(d, k) == [x \in DOMAIN d \ {k} |-> d[x]]

\* A faulty AfterPreference: "Clean up user data" keeps the wallet address
\* as final.py's cleanup_user_data does.
AfterPreference_keep_wallet(self, user_id, parsed) ==
    IF ~parsed.ok
    THEN [Reply(Out(self), "bad_preference") EXCEPT !.result = parsed.error]
    ELSE IF \/ ~Has(self.user_data, user_id)
            \/ ~({"twitter_url", "wallet_address", "score"} \subseteq DOMAIN self.user_data[user_id])
    THEN [Reply(Out(self), "processing") EXCEPT !.raised = TRUE]
    ELSE [Reply(Reply(Out([SetState(self, user_id, IDLE) EXCEPT
                              !.user_data = cleanup_user_data(self.user_data, user_id)]),
                      "processing"),
                "tx_complete")
          EXCEPT !.result = "allocated"]

\* handle_token_preference once parse_token_preference has returned: the
\* except ValueError, or the transaction, the reply and "Clean up user data".
AfterPreference(self, user_id, parsed) ==
    IF ~parsed.ok
    THEN [Reply(Out(self), "bad_preference") EXCEPT !.result = parsed.error]
    ELSE IF \/ ~Has(self.user_data, user_id)
            \/ ~({"twitter_url", "wallet_address", "score"} \subseteq DOMAIN self.user_data[user_id])
    THEN [Reply(Out(self), "processing") EXCEPT !.raised = TRUE]
    ELSE [Reply(Reply(Out([SetState(self, user_id, IDLE) EXCEPT
                              !.user_data = Del(self.user_data, user_id)]),
                      "processing"),
                "tx_complete")
          EXCEPT !.result = "allocated"]

\* TelegramBot.handle_token_preference (chatbot.py)
handle_token_preference(self, preference, user_id) ==
    AfterPreference(self, user_id, parse_token_preference(Tokens(preference)))

\* A faulty handle_message: the group filter is left out, every text is
\* handled.
chat_handle_message_answers_all(self, user_id, user_message, addressed, resp) ==
    IF StateOf(self.user_states, user_id) = WAITING_FOR_TWITTER_URL
    THEN chat_handle_twitter_url(self, user_message, user_id)
    ELSE IF StateOf(self.user_states, user_id) = WAITING_FOR_WALLET_ADDRESS
    THEN chat_handle_wallet_address(self, user_message, user_id, resp)
    ELSE IF StateOf(self.user_states, user_id) = WAITING_FOR_TOKEN_PREFERENCE
    THEN handle_token_preference(self, user_message, user_id)
    ELSE Reply(Out(self), "use_start")

\* TelegramBot.handle_message (chatbot.py)
chat_handle_message(self, user_id, user_message, addressed, resp) ==
    IF ~addressed THEN Out(self)
    ELSE IF StateOf(self.user_states, user_id) = WAITING_FOR_TWITTER_URL
    THEN chat_handle_twitter_url(self, user_message, user_id)
    ELSE IF StateOf(self.user_states, user_id) = WAITING_FOR_WALLET_ADDRESS
    THEN chat_handle_wallet_address(self, user_message, user_id, resp)
    ELSE IF StateOf(self.user_states, user_id) = WAITING_FOR_TOKEN_PREFERENCE
    THEN handle_token_preference(self, user_message, user_id)
    ELSE Reply(Out(self), "use_start")

\* The texts tried in each state of the chatbot.
ChatTextsFor(state) ==
    CASE state = WAITING_FOR_TWITTER_URL -> {T_URL, T_NOSCHEME, T_OTHER, T_BLANK}
      [] state = WAITING_FOR_WALLET_ADDRESS -> {T_WALLET, T_SHORTHEX, T_BLANK}
      [] state = WAITING_FOR_TOKEN_PREFERENCE ->
             {T_PREF_SPLIT, T_PREF_BARE, T_PREF_SHORT, T_PREF_OVER, T_OTHER, T_URL, T_BLANK}
      [] OTHER -> {T_OTHER}

ChatStart(u) ==
    /\ program = "chatbot"
    /\ Do(chat_start(Self, u), "start", u, "", "", 0, TRUE)

ChatHelp(u) ==
    /\ program = "chatbot"
    /\ Do(chat_help(Self, u), "help", u, "", "", 0, TRUE)

ChatMessageNotAddressed(u) ==
    /\ program = "chatbot"
    /\ Do(chat_handle_message(Self, u, T_OTHER, FALSE, AnyResp),
          "message", u, T_OTHER, "", 0, FALSE)

\* A text message that needs no answer from outside.
ChatMessagePlain(u) ==
    /\ program = "chatbot"
    /\ \E text \in ChatTextsFor(StateOf(user_states, u)) :
        /\ StateOf(user_states, u) = WAITING_FOR_WALLET_ADDRESS => IsBlank(text)
        /\ Do(chat_handle_message(Self, u, text, TRUE, AnyResp),
              "message", u, text, "", 0, TRUE)

\* A wallet address in the awaiting-wallet state: the scoring request.
ChatMessageWallet(u) ==
    /\ program = "chatbot"
    /\ StateOf(user_states, u) = WAITING_FOR_WALLET_ADDRESS
    /\ \E text \in ChatTextsFor(WAITING_FOR_WALLET_ADDRESS), resp \in ScoreResponses :
        /\ ~IsBlank(text)
        /\ Do(chat_handle_message(Self, u, text, TRUE, resp),
              "message", u, text, "", 0, TRUE)

ChatUsers == {1, 2}

ChatInit ==
    /\ program = "chatbot"
    /\ user_states = EmptyDict
    /\ user_data = EmptyDict
    /\ chat_histories = EmptyDict
    /\ keyboards = [u \in Users |-> 0]
    /\ has_key = FALSE
    /\ ev = NoEvent
    /\ pref_text = NoPreference
    /\ pref_result = NotParsed
    /\ response_text = << >>
    /\ parsed_response = NotParsed

(***************************************************************************)
(* swap.py: the terminal program.  Its one conversation, the global        *)
(* chat_history, is kept in chat_histories under the key Terminal; it has  *)
(* no per-user state and no per-user data.                                 *)
(***************************************************************************)
Terminal == 0

\* One pass of the "for line in lines" loop of parse_streaming_response
\* (swap.py): whatever a line raises is caught and the line is skipped.
swap_ParseLine(acc, line) ==
    IF line.j = J_BAD THEN acc
    ELSE IF line.p = "0" THEN
        IF line.j = J_STR THEN [acc EXCEPT !.content = acc.content \o line.c] ELSE acc
    ELSE IF line.p = "9" THEN
        [acc EXCEPT !.calls = Append(acc.calls, line)]
    ELSE IF line.p = "a" THEN
        IF line.j = J_OBJ /\ Truthy(line.id) /\ ~Unhashable(line.id)
        THEN [acc EXCEPT !.results = Put(acc.results, line.id, line)]
        ELSE acc
    ELSE acc

RECURSIVE swap_ParseLines(_, _)
swap_ParseLines(acc, lines) ==
    IF lines = << >> THEN acc
    ELSE swap_ParseLines(swap_ParseLine(acc, Head(lines)), Tail(lines))

\* What follows the loop: the merge is in no try, so the AttributeError of
\* a call that is no object leaves the parser (raised).
swap_AfterParseLoop(acc) ==
    IF BadCall(acc.calls) THEN [raised |-> TRUE, value |-> ParseError]
    ELSE [raised |-> FALSE,
          value |-> ParseResult(acc.content, CombineTools(acc.calls, acc.results))]

\* parse_streaming_response (swap.py)
swap_parse_streaming_response(lines) ==
    swap_AfterParseLoop(swap_ParseLines([content |-> "", calls |-> << >>,
                                         results |-> EmptyDict, raised |-> FALSE], lines))

\* The user message record of swap.py (its fresh id left out).
TermUserMessage(text) ==
    [role |-> "user", content |-> <<text>>, toolInvocations |-> << >>]

\* chat_history.append(...), for each of msgs
TermAppend(self, msgs) == [self EXCEPT !.chat_histories[Terminal] = @ \o msgs]

\* "Add assistant message to history if we got one" and the return; an
\* exception of the parser gives {"error": ...}.
TermReceived(self, r) ==
    IF r.raised THEN Sent(self, ParseError, 1, "parse_error")
    ELSE Sent(TermAppend(self, r.value.assistant_message), r.value, 1, "ok")

\* requests.post, raise_for_status and what follows them.
TermPost(self, up) ==
    IF up.k = "raise" THEN Sent(self, ParseError, 1, "raise")
    ELSE IF up.k = "status" THEN Sent(self, ParseError, 1, "status")
    ELSE TermReceived(self, swap_parse_streaming_response(up.lines))

\* send_chat_message (swap.py)
send_chat_message(self, text, up) ==
    TermPost(TermAppend(self, <<TermUserMessage(text)>>), up)

\* execute_transaction (swap.py): nothing is called without a wallet; what
\* a call raises is caught and reported (tx.raised), not raised again.
swap_execute_transaction(key, chain) ==
    IF ~key THEN NoTx ELSE execute_transaction(chain)

\* What follows the loop of handle_tool_invocations.
TermAfterToolLoop(acc, key, chain) ==
    IF acc.raised THEN ProcessResult(P_RAISED, NoTx)
    ELSE IF acc.tx_data # R_ABSENT /\ NumParams(acc.tx_data) > 0
    THEN IF ~key THEN ProcessResult(P_NO_WALLET, NoTx)
         ELSE TxResult(swap_execute_transaction(key, chain))
    ELSE IF acc.swap_data # R_ABSENT THEN ProcessResult(P_SWAP_NO_TX, NoTx)
    ELSE ProcessResult(P_NO_EXECUTABLE, NoTx)

\* handle_tool_invocations (swap.py), called with invocations that are not
\* empty.  kind P_RAISED: an exception leaves the function.
handle_tool_invocations(invocations, key, chain) ==
    TermAfterToolLoop(
        ToolLoop([swap_data |-> R_ABSENT, tx_data |-> R_ABSENT, raised |-> FALSE],
                 invocations),
        key, chain)

\* The lines typed: commands, in two spellings, blank lines and a request.
T_EXIT == "/exit"
T_HELP == "/help"
T_CLEAR == "/clear"
T_CLEAR_RAW == " /Clear "
T_WALLET_CMD == "/wallet"
T_SPACES == "  "

TermInputs == {T_EXIT, T_HELP, T_CLEAR, T_CLEAR_RAW, T_WALLET_CMD, T_BLANK, T_SPACES}

\* input(...).strip()
TermStrip(t) ==
    CASE t = T_CLEAR_RAW -> "/Clear"
      [] t = T_SPACES -> T_BLANK
      [] OTHER -> t

\* user_input.lower()
TermLower(t) ==
    CASE t = "/Clear" -> T_CLEAR
      [] t = T_OTHER -> "swap all to eth"
      [] OTHER -> t

\* The outcome of a tool run: what it printed, what it did on the chain.
TermTools(out, r) ==
    [Reply(out, IF r.kind = P_RAISED THEN "error" ELSE "tools") EXCEPT
        !.result = r.kind, !.tx = r.tx]

\* interactive_chat, after send_chat_message returned.
TermAfterSend(sent, key, chain) ==
    IF sent.response.error
    THEN [Reply(Out(sent.self), "error") EXCEPT
             !.posts = sent.posts, !.upstream = sent.upstream]
    ELSE IF sent.response.tool_invocations = << >>
    THEN [Reply(Out(sent.self), "content") EXCEPT
             !.posts = sent.posts, !.upstream = sent.upstream]
    ELSE TermTools([Reply(Out(sent.self), "content") EXCEPT
                       !.posts = sent.posts, !.upstream = sent.upstream],
                   handle_tool_invocations(sent.response.tool_invocations, key, chain))

\* The command a stripped line is, "" for a blank line, "message" otherwise.
TermOp(line) ==
    IF TermLower(line) \in {T_EXIT, T_HELP, T_CLEAR, T_WALLET_CMD, T_BLANK}
    THEN TermLower(line)
    ELSE "message"

\* interactive_chat (swap.py): one pass of its loop on the stripped line.
TermLine(self, line, up, key, chain) ==
    IF TermOp(line) = T_EXIT THEN Reply(Out(self), "goodbye")
    ELSE IF TermOp(line) = T_HELP THEN Reply(Out(self), "banner")
    ELSE IF TermOp(line) = T_CLEAR
    THEN Reply(Out([self EXCEPT !.chat_histories[Terminal] = << >>]), "cleared")
    ELSE IF TermOp(line) = T_WALLET_CMD THEN Reply(Out(self), "wallet")
    ELSE IF TermOp(line) = T_BLANK THEN Out(self)
    ELSE TermAfterSend(send_chat_message(self, line, up), key, chain)

interactive_chat(self, input, up, key, chain) ==
    TermLine(self, TermStrip(input), up, key, chain)

TermInit ==
    /\ program = "swap"
    /\ user_states = EmptyDict
    /\ user_data = EmptyDict
    /\ chat_histories = (Terminal :> << >>)
    /\ keyboards = [u \in Users |-> 0]
    /\ has_key \in BOOLEAN
    /\ ev = NoEvent
    /\ pref_text = NoPreference
    /\ pref_result = NotParsed
    /\ response_text = << >>
    /\ parsed_response = NotParsed

\* A command or a blank line is typed; after /exit the loop has ended.
TermCommand ==
    /\ program = "swap" /\ ev.op # T_EXIT
    /\ \E input \in TermInputs :
        Do(interactive_chat(Self, input, AnyUp, has_key, AnyChain),
           TermOp(TermStrip(input)), Terminal, input, "", 0, TRUE)

\* A request is typed.
TermMessage ==
    /\ program = "swap" /\ ev.op # T_EXIT
    /\ \E up \in Upstreams, chain \in Chains :
        Do(interactive_chat(Self, T_OTHER, up, has_key, chain),
           "message", Terminal, T_OTHER, "", 0, TRUE)

\* The initial state: one of the three programs has just been started.
AnyInit == Init \/ ChatInit \/ TermInit

Next ==
    \/ \E u \in Users :
        \/ Start(u)
        \/ Help(u)
        \/ Wallet(u)
        \/ Reset(u)
        \/ MessageNotAddressed(u)
        \/ MessagePlain(u)
        \/ MessageWallet(u)
        \/ MessageSwapRequest(u)
        \/ MessageConfirm(u)
        \/ \E owner \in Users : Callback(u, owner)
    \/ \E u \in ChatUsers :
        \/ ChatStart(u)
        \/ ChatHelp(u)
        \/ ChatMessageNotAddressed(u)
        \/ ChatMessagePlain(u)
        \/ ChatMessageWallet(u)
    \/ TermCommand
    \/ TermMessage

Spec == AnyInit /\ [][Next]_vars

(***************************************************************************)
(* final.py with two users in one group chat, each of whom may press the   *)
(* buttons of a keyboard sent to the other.  What the remote agent and     *)
(* the chain answer is drawn from smaller sets than in Spec.               *)
(***************************************************************************)
PairUsers == {1, 2}

PairMaxHist == 2

PairMaxKeyboards == 1

\* The step stays within the bounds of the two-user exploration.
PairBounds ==
    \A u \in PairUsers :
        /\ keyboards'[u] <= PairMaxKeyboards
        /\ Has(chat_histories', u) => Len(chat_histories'[u]) <= PairMaxHist

PairResps ==
    {[k |-> "body", body |-> [readable |-> TRUE, lines |-> <<ScoreLine("0", J_STR, D_DIGITS, 7)>>]]}

PairUps ==
    {[k |-> "status", lines |-> << >>], [k |-> "body", lines |-> B_SWAP_TX]}

PairChains ==
    {[fail_at |-> "none", estimate_ok |-> TRUE, estimate |-> 52000],
     [fail_at |-> "send_raw_transaction", estimate_ok |-> TRUE, estimate |-> 52000]}

PairInit ==
    /\ program = "final"
    /\ user_states = EmptyDict
    /\ user_data = EmptyDict
    /\ chat_histories = EmptyDict
    /\ keyboards = [u \in PairUsers |-> 0]
    /\ has_key \in BOOLEAN
    /\ ev = NoEvent
    /\ pref_text = NoPreference
    /\ pref_result = NotParsed
    /\ response_text = << >>
    /\ parsed_response = NotParsed

PairStart(u) ==
    /\ program = "final"
    /\ Do(start(Self, u), "start", u, "", "", 0, TRUE)

PairHelp(u) ==
    /\ program = "final"
    /\ Do(help(Self, u), "help", u, "", "", 0, TRUE)

PairWallet(u) ==
    /\ program = "final"
    /\ Do(show_wallet_info(Self, u), "wallet", u, "", "", 0, TRUE)

PairReset(u) ==
    /\ program = "final"
    /\ Do(reset_conversation(Self, u), "reset", u, "", "", 0, TRUE)

\* A text message of user u.  Only a confirming text reaches the chain, and
\* a confirming text makes no request to the agent.
PairText(u) ==
    \E text \in TextsFor(StateOf(user_states, u)), resp \in PairResps :
        /\ \/ \E up \in PairUps :
                /\ ~IsConfirmText(text)
                /\ Message(u, text, TRUE, resp, up, AnySid, AnyChain)
           \/ \E chain \in PairChains :
                /\ IsConfirmText(text)
                /\ Message(u, text, TRUE, resp, AnyUp, AnySid, chain)
        /\ PairBounds

\* A faulty callback: the handler acts for the user whose identifier is in
\* the button's callback data, not for the user who pressed it.
PairCallback_embedded_id(u, owner) ==
    /\ keyboards[owner] > 0
    /\ \/ \E chain \in PairChains :
            Do(UseKeyboard(handle_callback(Self, owner, "confirm_swap_", has_key, chain), owner),
               "callback", u, "", "confirm_swap_", owner, TRUE)
       \/ Do(UseKeyboard(handle_callback(Self, owner, "cancel_swap", has_key, AnyChain), owner),
             "callback", u, "", "cancel_swap", owner, TRUE)

\* A press, by user u, of a button of a keyboard sent to user owner.
PairCallback(u, owner) ==
    /\ keyboards[owner] > 0
    /\ \/ \E chain \in PairChains :
            Do(UseKeyboard(handle_callback(Self, u, "confirm_swap_", has_key, chain), owner),
               "callback", u, "", "confirm_swap_", owner, TRUE)
       \/ Do(UseKeyboard(handle_callback(Self, u, "cancel_swap", has_key, AnyChain), owner),
             "callback", u, "", "cancel_swap", owner, TRUE)

PairNext ==
    \E u \in PairUsers :
        \/ PairStart(u)
        \/ PairHelp(u)
        \/ PairWallet(u)
        \/ PairReset(u)
        \/ PairText(u)
        \/ \E owner \in PairUsers : PairCallback(u, owner)

SpecPair == PairInit /\ [][PairNext]_vars

(***************************************************************************)
(* parse_token_preference (chatbot.py) on its own: a text is drawn, the    *)
(* function is applied to it once.                                         *)
(***************************************************************************)
MaxTokens == 4

PrefTokens ==
    {Pct(30), Pct(70), Num(30), Num(70), NumX(70),
     Sym("USDC"), Sym("usdc"), Sym("NATIVE"), Sym("native"), Sym("ETH"),
     SymX("USDC"), Word}

\* The texts of at most n tokens, with and without white space around them.
PrefTexts(n) == {Text(p, ts) : p \in BOOLEAN, ts \in SeqsUpTo(PrefTokens, n)}

PrefInit ==
    /\ program = "parser"
    /\ user_states = EmptyDict
    /\ user_data = EmptyDict
    /\ chat_histories = EmptyDict
    /\ keyboards = [u \in Users |-> 0]
    /\ has_key = FALSE
    /\ ev = NoEvent
    /\ pref_text \in PrefTexts(MaxTokens)
    /\ pref_result = NotParsed
    /\ response_text = << >>
    /\ parsed_response = NotParsed

PrefParse ==
    /\ program = "parser"
    /\ pref_result = NotParsed
    /\ pref_result' = parse_token_preference(pref_text)
    /\ UNCHANGED <<program, user_states, user_data, chat_histories, keyboards,
                   has_key, ev, pref_text, response_text, parsed_response>>

PrefNext == PrefParse

SpecPref == PrefInit /\ [][PrefNext]_vars

(***************************************************************************)
(* The text of a response body, character by character, for the bodies     *)
(* that are parsed a second time.  The characters are the letter n, the    *)
(* quotation mark, the backslash, the line feed, the space, the digit 0    *)
(* and the colon; over them a JSON payload is a string literal, the number *)
(* 0, or malformed.                                                        *)
(***************************************************************************)
Quote == "\""
Backslash == "\\"
Newline == "\n"
Space == " "

\* The characters a text delta is made of.
ContentChars == {"n", Quote, Backslash, Newline, Space}

\* The str made of the characters cs.
RECURSIVE Str(_)
Str(cs) == IF cs = << >> THEN "" ELSE Head(cs) \o Str(Tail(cs))

\* The characters of the str c, of at most n characters.
CharsOf(c, n) == CHOOSE cs \in SeqsUpTo(ContentChars, n) : Str(cs) = c

\* How a JSON string literal writes the character ch.
EscapeChar(ch) ==
    CASE ch = Quote -> <<Backslash, Quote>>
      [] ch = Backslash -> <<Backslash, Backslash>>
      [] ch = Newline -> <<Backslash, "n">>
      [] OTHER -> <<ch>>

RECURSIVE Escape(_)
Escape(cs) == IF cs = << >> THEN << >> ELSE EscapeChar(Head(cs)) \o Escape(Tail(cs))

\* The JSON encoding of the str made of cs.
JsonDumps(cs) == <<Quote>> \o Escape(cs) \o <<Quote>>

IsSpace(ch) == ch \in {Space, Newline}

\* str.strip()
RECURSIVE LStrip(_)
LStrip(cs) == IF cs # << >> /\ IsSpace(Head(cs)) THEN LStrip(Tail(cs)) ELSE cs

RECURSIVE RStrip(_)
RStrip(cs) ==
    IF cs # << >> /\ IsSpace(cs[Len(cs)]) THEN RStrip(SubSeq(cs, 1, Len(cs) - 1)) ELSE cs

StripChars(cs) == RStrip(LStrip(cs))

\* str.split('\n'): cur is the piece being read, done the pieces before it.
RECURSIVE SplitLines(_, _, _)
SplitLines(cs, cur, done) ==
    IF cs = << >> THEN Append(done, cur)
    ELSE IF Head(cs) = Newline THEN SplitLines(Tail(cs), << >>, Append(done, cur))
    ELSE SplitLines(Tail(cs), Append(cur, Head(cs)), done)

\* A string literal left as it is written: no escape is decoded.
RECURSIVE ScanString_raw(_, _)
ScanString_raw(rest, acc) ==
    IF rest = << >> THEN [ok |-> FALSE, chars |-> acc]
    ELSE IF Head(rest) = Quote THEN [ok |-> Tail(rest) = << >>, chars |-> acc]
    ELSE IF Head(rest) = Newline THEN [ok |-> FALSE, chars |-> acc]
    ELSE IF Head(rest) = Backslash
    THEN IF Len(rest) < 2 THEN [ok |-> FALSE, chars |-> acc]
         ELSE ScanString_raw(SubSeq(rest, 3, Len(rest)), acc \o <<rest[1], rest[2]>>)
    ELSE ScanString_raw(Tail(rest), Append(acc, Head(rest)))

\* json.loads on what follows the opening quotation mark of a string
\* literal: the characters up to the closing one, escapes decoded.  A line
\* feed in the literal, an escape other than \" \\ \n, a missing closing
\* mark and anything after it are JSONDecodeErrors.
RECURSIVE ScanString(_, _)
ScanString(rest, acc) ==
    IF rest = << >> THEN [ok |-> FALSE, chars |-> acc]
    ELSE IF Head(rest) = Quote THEN [ok |-> Tail(rest) = << >>, chars |-> acc]
    ELSE IF Head(rest) = Newline THEN [ok |-> FALSE, chars |-> acc]
    ELSE IF Head(rest) = Backslash
    THEN IF Len(rest) < 2 THEN [ok |-> FALSE, chars |-> acc]
         ELSE IF rest[2] \in {Quote, Backslash}
         THEN ScanString(SubSeq(rest, 3, Len(rest)), Append(acc, rest[2]))
         ELSE IF rest[2] = "n"
         THEN ScanString(SubSeq(rest, 3, Len(rest)), Append(acc, Newline))
         ELSE [ok |-> FALSE, chars |-> acc]
    ELSE ScanString(Tail(rest), Append(acc, Head(rest)))

\* json.loads(line[2:]) as a line of the stream with prefix p; payload is
\* line[2:] without the white space around it.
LoadedLine(p, payload) ==
    IF payload = <<"0">> THEN ScalarLine(p)
    ELSE IF payload # << >> /\ Head(payload) = Quote
    THEN IF ScanString(Tail(payload), << >>).ok
         THEN Line(p, J_STR, Str(ScanString(Tail(payload), << >>).chars), NoId, NoName,
                   R_ABSENT)
         ELSE BadLine(p)
    ELSE BadLine(p)

\* line.startswith('0:'), '9:', 'a:'; "x" for a line of another beginning.
PrefixOf(line) ==
    IF Len(line) >= 2 /\ line[1] \in {"0", "9", "a"} /\ line[2] = ":" THEN line[1] ELSE "x"

\* A stripped, non-empty line of the text as a line of the stream.
LineOfChars(line) ==
    IF PrefixOf(line) = "x" THEN BadLine("x")
    ELSE LoadedLine(PrefixOf(line), StripChars(SubSeq(line, 3, Len(line))))

\* "line = line.strip(); if not line: continue", over the pieces of the text.
RECURSIVE LinesOfPieces(_)
LinesOfPieces(pieces) ==
    IF pieces = << >> THEN << >>
    ELSE IF StripChars(Head(pieces)) = << >> THEN LinesOfPieces(Tail(pieces))
    ELSE <<LineOfChars(StripChars(Head(pieces)))>> \o LinesOfPieces(Tail(pieces))

\* lines = response_text.strip().split('\n'), and the lines the loop reads.
LinesOf(text) == LinesOfPieces(SplitLines(StripChars(text), << >>, << >>))

\* The body that is the one line '0:' followed by the JSON encoding of c.
ContentBody(cs) == <<"0", ":">> \o JsonDumps(cs)

(***************************************************************************)
(* parse_streaming_response on its own, as final.py and as swap.py have    *)
(* it: a body is drawn and parsed once; when the parser returned a content,*)
(* the body made of that content alone is parsed in turn.                  *)
(***************************************************************************)
MaxLines == 3

StreamLines ==
    {TextLine("n"), TextLine(Backslash), TextLine(Newline), ScalarLine("0"),
     CallLine("x", TOOL_SWAP), CallLine(NoId, TOOL_TX), CallLine(EmptyId, TOOL_SWAP),
     CallLine(ListId, TOOL_TX),
     ResultLine("x", R_SWAP), ResultLine("x", R_ABSENT), ResultLine(EmptyId, R_TX),
     ResultLine(ListId, R_TX),
     BadLine("a"), Line("x", J_OBJ, "", "x", TOOL_SWAP, R_SWAP),
     ScalarLine("9"), ScalarLine("a")}

\* The bodies of at most n lines.
StreamBodies(n) == SeqsUpTo(StreamLines, n)

\* What a parser gave: by which program, at which stage, whether an
\* exception left it, its return value, and (second stage) the content the
\* body was made of.
ParsedBy(by, stage, raised, value, of) ==
    [by |-> by, stage |-> stage, raised |-> raised, value |-> value, of |-> of]

StreamInit ==
    /\ program = "stream"
    /\ user_states = EmptyDict
    /\ user_data = EmptyDict
    /\ chat_histories = EmptyDict
    /\ keyboards = [u \in Users |-> 0]
    /\ has_key = FALSE
    /\ ev = NoEvent
    /\ pref_text = NoPreference
    /\ pref_result = NotParsed
    /\ response_text \in StreamBodies(MaxLines)
    /\ parsed_response = NotParsed

\* final.py parses the body.
StreamParse ==
    /\ program = "stream"
    /\ parsed_response = NotParsed
    /\ parsed_response' =
           ParsedBy("final", "parsed", FALSE, parse_streaming_response(response_text), "")
    /\ UNCHANGED <<program, user_states, user_data, chat_histories, keyboards,
                   has_key, ev, pref_text, pref_result, response_text>>

\* swap.py parses the body.
StreamParseSwap ==
    /\ program = "stream"
    /\ parsed_response = NotParsed
    /\ parsed_response' =
           ParsedBy("swap", "parsed", swap_parse_streaming_response(response_text).raised,
                    swap_parse_streaming_response(response_text).value, "")
    /\ UNCHANGED <<program, user_states, user_data, chat_histories, keyboards,
                   has_key, ev, pref_text, pref_result, response_text>>

\* The content final.py returned is made a body of its own and parsed again.
StreamReparse ==
    /\ program = "stream"
    /\ parsed_response # NotParsed
    /\ parsed_response.by = "final" /\ parsed_response.stage = "parsed"
    /\ ~parsed_response.value.error
    /\ response_text' = LinesOf(ContentBody(CharsOf(parsed_response.value.content, MaxLines)))
    /\ parsed_response' =
           ParsedBy("final", "reparsed", FALSE, parse_streaming_response(response_text'),
                    parsed_response.value.content)
    /\ UNCHANGED <<program, user_states, user_data, chat_histories, keyboards,
                   has_key, ev, pref_text, pref_result>>

StreamNext == StreamParse \/ StreamParseSwap \/ StreamReparse

SpecStream == StreamInit /\ [][StreamNext]_vars

(***************************************************************************)
(* The properties.  ev is the update just handled; in an action formula    *)
(* ev' is the update the step handles, the unprimed variables are the      *)
(* fields before it and the primed ones the fields after it.               *)
(***************************************************************************)
\* The dict of user u, {} when the user has none.
DataOf(data, u) == Get(data, u, EmptyDict)

\* Whether msg is among the messages sent to the user.
Replied(e, msg) == \E i \in 1..Len(e.out.replies) : e.out.replies[i] = msg

\* The update is a confirm action of final.py: the confirm button, or a
\* confirming text in the awaiting-confirmation state.
IsConfirm(e) ==
    /\ program = "final"
    /\ \/ e.op = "callback" /\ e.data = "confirm_swap_"
       \/ /\ e.op = "message" /\ e.addressed
          /\ e.pre = WAITING_FOR_SWAP_CONFIRMATION
          /\ IsConfirmText(e.text)

\* The update is a cancel of final.py: the cancel button, or a cancelling
\* text in the awaiting-confirmation state.
IsCancel(e) ==
    /\ program = "final"
    /\ \/ e.op = "callback" /\ e.data = "cancel_swap"
       \/ /\ e.op = "message" /\ e.addressed
          /\ e.pre = WAITING_FOR_SWAP_CONFIRMATION
          /\ ~IsConfirmText(e.text) /\ IsCancelText(e.text)

\* The update is a text handled as a swap request by final.py.
IsSwapRequest(e) ==
    /\ program = "final"
    /\ e.op = "message" /\ e.addressed
    /\ \/ e.pre = WAITING_FOR_SWAP_REQUEST
       \/ /\ e.pre = WAITING_FOR_SWAP_CONFIRMATION
          /\ ~IsConfirmText(e.text) /\ ~IsCancelText(e.text)

\* C1: no handler throws outward: whatever the commands, texts, callbacks
\* and upstream response bodies, handle_message and handle_callback end
\* without an exception leaving them.
C1_NoHandlerRaises == ~ev.out.raised

\* The preferences of the model that have no percentage-symbol pair and are
\* no bare symbol, and the one that sums to more than 100%.
UnparsablePreferences == {T_OTHER, T_URL, T_BLANK}
Over100Preferences == {T_PREF_OVER}

\* The update is an invalid input for the state it finds, and the
\* correction prompt that answers it.
InvalidUrl(e) ==
    e.op = "message" /\ e.addressed /\ e.pre = WAITING_FOR_TWITTER_URL
    /\ ~(HasTwitterDomain(e.text) /\ HasHttpScheme(e.text))

InvalidWallet(e) ==
    e.op = "message" /\ e.addressed /\ e.pre = WAITING_FOR_WALLET_ADDRESS
    /\ IF program = "final"
       THEN e.text \in {T_SHORTHEX, T_URL, T_OTHER}
       ELSE e.text = T_BLANK

InvalidPreference(e) ==
    program = "chatbot" /\ e.op = "message" /\ e.addressed
    /\ e.pre = WAITING_FOR_TOKEN_PREFERENCE
    /\ e.text \in UnparsablePreferences \cup Over100Preferences

Correction(e) ==
    IF InvalidUrl(e) THEN "bad_url"
    ELSE IF InvalidWallet(e) THEN "bad_wallet"
    ELSE "bad_preference"

C3_ConfirmLeavesWalletAndSession ==
    [][IsConfirm(ev') =>
           /\ StateOf(user_states', ev'.user) = IDLE
           /\ DataOf(user_data', ev'.user) = KeptFields(DataOf(user_data, ev'.user))]_vars

\* C4 as the specification states it: when a pending swap is cancelled, the
\* session returns to IDLE with the transient fields cleared and the wallet
\* address and session id kept.
C4_CancelReturnsToIdle ==
    [][IsCancel(ev') /\ ev'.pre = WAITING_FOR_SWAP_CONFIRMATION =>
           /\ StateOf(user_states', ev'.user) = IDLE
           /\ DataOf(user_data', ev'.user) = KeptFields(DataOf(user_data, ev'.user))]_vars

\* C4 as amended: when a swap is cancelled (the cancel button, or a
\* cancelling text in the awaiting-confirmation state), the user is told so,
\* the user's state becomes awaiting-swap-request and no stored field of
\* any user changes: the prize, the wallet address, the session id and the
\* pending tool invocations all stay.
C4_CancelAwaitsSwapRequest ==
    [][IsCancel(ev') =>
           /\ StateOf(user_states', ev'.user) = WAITING_FOR_SWAP_REQUEST
           /\ user_data' = user_data
           /\ chat_histories' = chat_histories
           /\ ~ev'.out.raised
           /\ ev'.out.replies = <<"cancelled">>]_vars

\* C4 witness: a pending swap was cancelled in the awaiting-confirmation
\* state; the user awaits a swap request with the prize and the pending
\* invocations still stored.
C4_Witness ==
    /\ IsCancel(ev) /\ ev.pre = WAITING_FOR_SWAP_CONFIRMATION
    /\ StateOf(user_states, ev.user) = WAITING_FOR_SWAP_REQUEST
    /\ {"prize_amount", "wallet_address", "pending_tool_invocations"}
           \subseteq DOMAIN DataOf(user_data, ev.user)

\* The confirm action ended in a failed execution.
ExecutionFailed(e) ==
    IsConfirm(e) /\ e.out.result \in {P_TX_FAILED, P_SWAP_NO_TX, P_NO_EXECUTABLE}

\* C5: when the execution fails during a confirm action, the failure is
\* reported and the session returns to the awaiting-swap-request state with
\* the prize amount and the wallet address still stored.
C5_FailureReturnsToSwapRequest ==
    ExecutionFailed(ev) =>
        /\ Replied(ev, "tx_failed")
        /\ StateOf(user_states, ev.user) = WAITING_FOR_SWAP_REQUEST
        /\ {"prize_amount", "wallet_address"} \subseteq DOMAIN DataOf(user_data, ev.user)

\* The preferences of the model that parse to an allocation.
ParsablePreferences == {T_PREF_SPLIT, T_PREF_BARE, T_PREF_SHORT}

\* The update resolves the allocation: a parsable preference in the
\* awaiting-preference state of chatbot.py.
IsAllocation(e) ==
    program = "chatbot" /\ e.op = "message" /\ e.addressed
    /\ e.pre = WAITING_FOR_TOKEN_PREFERENCE
    /\ e.text \in ParsablePreferences

\* C6 as the specification states it: when the allocation is resolved, the
\* session returns to IDLE, the wallet address is still stored and the URL
\* and the score are cleared.
C6_AllocationKeepsWallet ==
    [][IsAllocation(ev') =>
           /\ StateOf(user_states', ev'.user) = IDLE
           /\ DOMAIN DataOf(user_data', ev'.user) = {"wallet_address"}
           /\ DataOf(user_data', ev'.user)["wallet_address"]
                  = DataOf(user_data, ev'.user)["wallet_address"]]_vars

\* C6 as amended: when the allocation is resolved, the user is told the
\* transaction is complete, the session returns to IDLE and the user's
\* whole record is removed: URL, score and wallet address.
C6_AllocationRemovesRecord ==
    [][IsAllocation(ev') =>
           /\ StateOf(user_states', ev'.user) = IDLE
           /\ ~Has(user_data', ev'.user)
           /\ \A u \in DOMAIN user_data \ {ev'.user} :
                  Has(user_data', u) /\ user_data'[u] = user_data[u]
           /\ ~ev'.out.raised
           /\ ev'.out.replies = <<"processing", "tx_complete">>]_vars

\* C6 witness: "40% USDC" was handled in the awaiting-preference state; the
\* user is IDLE and has no record.
C6_Witness ==
    /\ IsAllocation(ev) /\ ev.text = T_PREF_SHORT
    /\ ev.out.result = "allocated"
    /\ StateOf(user_states, ev.user) = IDLE
    /\ ~Has(user_data, ev.user)

\* The changes of state of the script.
Scripted(op, pre, post) ==
    \/ op = "start" /\ post = WAITING_FOR_TWITTER_URL
    \/ op = "reset" /\ post = IDLE
    \/ pre = WAITING_FOR_TWITTER_URL /\ post = WAITING_FOR_WALLET_ADDRESS
    \/ pre = WAITING_FOR_WALLET_ADDRESS /\ post = WAITING_FOR_SWAP_REQUEST
    \/ pre = WAITING_FOR_SWAP_REQUEST /\ post = WAITING_FOR_SWAP_CONFIRMATION
    \/ pre = WAITING_FOR_SWAP_CONFIRMATION /\ post \in {WAITING_FOR_SWAP_REQUEST, IDLE}

\* C7: every change of a user's state follows the scripted order; in
\* particular IDLE is left only by /start.
C7_ScriptedOrder ==
    [][program = "final" =>
           \A u \in Users :
               StateOf(user_states', u) # StateOf(user_states, u) =>
                   /\ ev'.user = u
                   /\ Scripted(ev'.op, StateOf(user_states, u), StateOf(user_states', u))]_vars

\* The swap-intent request failed: the POST raised, the status was not 200,
\* or the parser returned an error field.
RequestFailed(e) ==
    IsSwapRequest(e) /\ e.out.upstream \in {"raise", "status", "parse_error"}

\* The stored pending tool invocations of user u: <<them>>, or << >> when
\* none are stored.
PendingOf(data, u) ==
    IF Has(DataOf(data, u), "pending_tool_invocations")
    THEN <<data[u]["pending_tool_invocations"]>>
    ELSE << >>

\* C8: when the swap-intent request fails, the user receives an error
\* message, the handler does not raise, and the user's state and stored
\* pending tool invocations are what they were before the message.
C8_FailedRequestHoldsState ==
    [][RequestFailed(ev') =>
           /\ Replied(ev', "api_error")
           /\ ~ev'.out.raised
           /\ user_states' = user_states
           /\ PendingOf(user_data', ev'.user) = PendingOf(user_data, ev'.user)]_vars

\* C8 witness: a request made in the awaiting-confirmation state met an
\* unparsable body; the user still awaits confirmation of the swap stored.
C8_Witness ==
    /\ RequestFailed(ev) /\ ev.out.upstream = "parse_error"
    /\ ev.pre = WAITING_FOR_SWAP_CONFIRMATION
    /\ Replied(ev, "api_error")
    /\ StateOf(user_states, ev.user) = WAITING_FOR_SWAP_CONFIRMATION
    /\ PendingOf(user_data, ev.user) # << >>

\* The update is a wallet address whose scoring request failed: the POST
\* raised, the status was not 200, or the body could not be read or parsed.
ScoringFailed(e) ==
    /\ e.op = "message" /\ e.addressed
    /\ e.pre = WAITING_FOR_WALLET_ADDRESS
    /\ e.out.scoring \in {"raise", "status", "unreadable", "unparsable"}

\* The state that follows awaiting-wallet.
AfterWallet ==
    IF program = "final" THEN WAITING_FOR_SWAP_REQUEST ELSE WAITING_FOR_TOKEN_PREFERENCE

\* C9: scoring never fails hard: when the scoring request raises, returns a
\* status other than 200, or its body cannot be read or parsed, the score
\* is 1 and the conversation advances from awaiting-wallet to the next
\* state with that score stored.
C9_ScoringFallsBackToOne ==
    ScoringFailed(ev) =>
        /\ ~ev.out.raised
        /\ StateOf(user_states, ev.user) = AfterWallet
        /\ Has(DataOf(user_data, ev.user), "score")
        /\ user_data[ev.user]["score"] = 1

\* C9 witness: a body that could not be parsed was scored 1 and the user
\* moved on to the awaiting-swap-request state.
C9_Witness ==
    /\ program = "final"
    /\ ScoringFailed(ev) /\ ev.out.scoring = "unparsable"
    /\ StateOf(user_states, ev.user) = WAITING_FOR_SWAP_REQUEST
    /\ DataOf(user_data, ev.user)["score"] = 1

\* C10: without a signing key the flows still reach awaiting-confirmation,
\* and every confirm action fails without signing or broadcasting anything:
\* with 'no wallet configured' whenever a swap is pending.
C10_NoKeyNoTransaction ==
    ~has_key /\ IsConfirm(ev) =>
        /\ ~ev.out.raised
        /\ Replied(ev, "tx_failed")
        /\ ev.out.tx = NoTx
        /\ ~Signed(ev.out.tx) /\ ~Broadcast(ev.out.tx)
        /\ ev.out.result \in {P_NO_WALLET, P_NO_PENDING}
        /\ ev.pre = WAITING_FOR_SWAP_CONFIRMATION => ev.out.result = P_NO_WALLET

\* C10 witness: without a key the user reached awaiting-confirmation and
\* confirmed; the answer was 'no wallet configured'.
C10_Witness ==
    /\ ~has_key /\ IsConfirm(ev)
    /\ ev.pre = WAITING_FOR_SWAP_CONFIRMATION
    /\ ev.out.result = P_NO_WALLET
    /\ StateOf(user_states, ev.user) = IDLE

(***************************************************************************)
(* C11.  Users are isolated from one another.                              *)
(***************************************************************************)
\* What a dictionary holds for a user: nothing, or one value.
EntryOf(d, u) == IF Has(d, u) THEN <<d[u]>> ELSE << >>

\* C11: whatever update of one user is handled (a command, a text, a
\* press of a button, of their own keyboard or of another user's), every
\* other user's state, stored data and conversation history are after the
\* step what they were before it.
C11_OtherUsersUntouched ==
    [][\A b \in PairUsers \ {ev'.user} :
          /\ EntryOf(user_states', b) = EntryOf(user_states, b)
          /\ EntryOf(user_data', b) = EntryOf(user_data, b)
          /\ EntryOf(chat_histories', b) = EntryOf(chat_histories, b)]_vars

\* User 1 has just pressed a button of the keyboard sent to user 2, who is
\* being asked to confirm a swap and has a conversation behind them.
C11_Witness ==
    /\ ev.op = "callback" /\ ev.user = 1 /\ ev.owner = 2
    /\ StateOf(user_states, 2) = WAITING_FOR_SWAP_CONFIRMATION
    /\ DataOf(user_data, 2) # EmptyDict
    /\ EntryOf(chat_histories, 2) # << >> /\ chat_histories[2] # << >>

(***************************************************************************)
(* C12.  One update, at most one POST and at most one broadcast.           *)
(***************************************************************************)
\* How often w3.eth.send_raw_transaction was called.
Sends(tx) == Cardinality({i \in 1..Len(tx.calls) : tx.calls[i] = "send_raw_transaction"})

\* The generate-evm-tx invocations of a history record.
TxInvocations(msg) ==
    {i \in 1..Len(msg.toolInvocations) : msg.toolInvocations[i].toolName = TOOL_TX}

\* C12: the update just handled made at most one outbound POST and called
\* send_raw_transaction at most once, whatever invocations were stored.
C12_OnePostOneBroadcast ==
    program = "final" => ev.out.posts <= 1 /\ Sends(ev.out.tx) <= 1

\* A confirm has just broadcast a transaction, in a session whose one swap
\* request was answered with two generate-evm-tx results, the later of them
\* with two entries in params.
C12_Witness ==
    /\ IsConfirm(ev) /\ Broadcast(ev.out.tx)
    /\ Has(chat_histories, ev.user) /\ Len(chat_histories[ev.user]) = 2
    /\ Cardinality(TxInvocations(chat_histories[ev.user][2])) = 2
    /\ \E i \in TxInvocations(chat_histories[ev.user][2]) :
           NumParams(chat_histories[ev.user][2].toolInvocations[i].result) = 2

(***************************************************************************)
(* C13.  The history is append-only within a session.                      *)
(***************************************************************************)
IsPrefix(s, t) == Len(s) <= Len(t) /\ SubSeq(t, 1, Len(s)) = s

\* C13: a step that is not /start, /reset or (in the terminal program)
\* /clear leaves every history there was as a prefix of the history there
\* is: records are only ever added at the end.
C13_HistoryAppendOnly ==
    [][ev'.op \notin {"start", "reset", T_CLEAR} =>
          \A u \in DOMAIN chat_histories :
              Has(chat_histories', u) /\ IsPrefix(chat_histories[u], chat_histories'[u])]_vars

\* The terminal program has just sent a request whose POST raised, with an
\* earlier exchange in the history: a third record was appended to the two.
C13_Witness ==
    /\ program = "swap" /\ ev.op = "message" /\ ev.out.upstream = "raise"
    /\ Len(chat_histories[Terminal]) = 3
    /\ chat_histories[Terminal][2].role = "assistant"

(***************************************************************************)
(* C14.  /start begins a fresh session.                                    *)
(***************************************************************************)
\* The user's session is fresh: awaiting the URL, an empty data record
\* and, where the bot keeps histories, an empty history.
Fresh(states, data, histories, u) ==
    /\ StateOf(states, u) = WAITING_FOR_TWITTER_URL
    /\ EntryOf(data, u) = <<EmptyDict>>
    /\ program = "final" => EntryOf(histories, u) = << << >> >>

\* C14: after /start, from whatever state, the user's session is fresh in
\* either bot; and a confirm that finds no pending invocations stored (as
\* one pressed on a keyboard of a session before the /start does) calls
\* nothing on the chain.
C14_StartIsFresh ==
    [][/\ ev'.op = "start" => Fresh(user_states', user_data', chat_histories', ev'.user)
       /\ (IsConfirm(ev') /\ PendingOf(user_data, ev'.user) = << >>) =>
              ev'.out.tx = NoTx /\ ev'.out.result = P_NO_PENDING
       /\ (ev.op = "start" /\ IsConfirm(ev') /\ ev'.user = ev.user) =>
              ev'.out.tx = NoTx]_vars

\* With a signing key, the confirm button of a keyboard sent before the
\* latest /start has just been pressed, right after that /start: nothing
\* was pending.
C14_Witness ==
    /\ has_key /\ ev.op = "callback" /\ ev.data = "confirm_swap_"
    /\ ev.pre = WAITING_FOR_TWITTER_URL
    /\ ev.out.result = P_NO_PENDING
    /\ chat_histories[ev.user] = << >>

(***************************************************************************)
(* C15..C20.  parse_token_preference.  The texts a claim is about are      *)
(* described here from the text itself, not from what the parser finds.    *)
(***************************************************************************)
\* parse_token_preference has been applied to pref_text.
Parsed == program = "parser" /\ pref_result # NotParsed

\* The share a returned allocation gives a symbol, 0 when it names it not.
Share(allocation, sym) == Get(allocation, sym, 0)

\* C15: every allocation parse_token_preference returns has its keys among
\* NATIVE, USDC and ETH and values that are natural numbers summing to 100.
C15_AllocationSumsTo100 ==
    (Parsed /\ pref_result.ok) =>
        /\ DOMAIN pref_result.allocation \subseteq Symbols
        /\ \A sym \in DOMAIN pref_result.allocation : pref_result.allocation[sym] \in Nat
        /\ Share(pref_result.allocation, "NATIVE") + Share(pref_result.allocation, "USDC")
               + Share(pref_result.allocation, "ETH") = 100

\* An allocation over all three symbols was returned, NATIVE by the
\* shortfall alone.
C15_Witness ==
    /\ Parsed /\ pref_result.ok
    /\ pref_text.tokens = <<Pct(30), Sym("usdc"), Num(30), Sym("ETH")>>
    /\ pref_result.allocation = [sym \in Symbols |-> IF sym = "NATIVE" THEN 40 ELSE 30]

\* The vocabulary symbol a spelling is a spelling of.
NameOf(s) ==
    CASE s \in {"USDC", "usdc"} -> "USDC"
      [] s \in {"ETH", "eth"} -> "ETH"
      [] s \in {"NATIVE", "native"} -> "NATIVE"

\* The symbols a text names.
Named(tokens) ==
    {NameOf(tokens[i].s) : i \in {j \in 1..Len(tokens) : tokens[j].k \in {K_SYM, K_SYMX}}}

\* The sum of the numbers of a text, from token i on.
RECURSIVE TotalFrom(_, _)
TotalFrom(tokens, i) ==
    IF i > Len(tokens) THEN 0 ELSE tokens[i].n + TotalFrom(tokens, i + 1)

\* From token i on the text is a row of '<N>% <SYM>' pairs; a symbol may
\* be followed by a comma, and a word ("and") may stand between two pairs.
RECURSIVE PctPairsFrom(_, _)
PctPairsFrom(tokens, i) ==
    IF i > Len(tokens) THEN TRUE
    ELSE IF tokens[i].k = K_WORD
    THEN i > 1 /\ i < Len(tokens) /\ tokens[i + 1].k = K_PCT /\ PctPairsFrom(tokens, i + 1)
    ELSE /\ tokens[i].k = K_PCT /\ i < Len(tokens)
         /\ tokens[i + 1].k \in {K_SYM, K_SYMX}
         /\ PctPairsFrom(tokens, i + 2)

MadeOfPctPairs(text) == text.tokens # << >> /\ PctPairsFrom(text.tokens, 1)

\* What the '<N>% <SYM>' pairs from token i on give a symbol.
RECURSIVE PctShare(_, _, _)
PctShare(tokens, sym, i) ==
    IF i >= Len(tokens) THEN 0
    ELSE IF tokens[i].k = K_PCT
    THEN (IF NameOf(tokens[i + 1].s) = sym THEN tokens[i].n ELSE 0)
         + PctShare(tokens, sym, i + 2)
    ELSE PctShare(tokens, sym, i + 1)

\* The mapping the '<N>% <SYM>' pairs of a text denote.
DenotedByPctPairs(tokens) == [sym \in Named(tokens) |-> PctShare(tokens, sym, 1)]

\* A mapping with the shortfall of its total to 100 added to NATIVE.
WithShortfall(mapping, total) ==
    IF total >= 100 THEN mapping
    ELSE [sym \in DOMAIN mapping \cup {"NATIVE"} |->
             Share(mapping, sym) + IF sym = "NATIVE" THEN 100 - total ELSE 0]

\* C16: a text made of '<N>% <SYM>' pairs whose percentages total exactly
\* 100 is parsed into exactly the mapping the pairs denote, a symbol named
\* in several pairs getting the sum of its percentages.
C16_PairsOf100GiveTheirMapping ==
    (Parsed /\ MadeOfPctPairs(pref_text) /\ TotalFrom(pref_text.tokens, 1) = 100) =>
        /\ pref_result.ok
        /\ pref_result.allocation = DenotedByPctPairs(pref_text.tokens)

\* '30% usdc 70% USDC,' was parsed: the two shares of USDC were added.
C16_Witness ==
    /\ Parsed
    /\ pref_text.tokens = <<Pct(30), Sym("usdc"), Pct(70), SymX("USDC")>>
    /\ pref_result.ok /\ pref_result.allocation = ("USDC" :> 100)

C18_ShortfallGoesToNative ==
    (Parsed /\ MadeOfPctPairs(pref_text) /\ TotalFrom(pref_text.tokens, 1) < 100) =>
        /\ pref_result.ok
        /\ pref_result.allocation =
               WithShortfall(DenotedByPctPairs(pref_text.tokens),
                             TotalFrom(pref_text.tokens, 1))

\* '30% native 30% USDC' was parsed: NATIVE has its 30 and the 40 missing.
C18_Witness ==
    /\ Parsed
    /\ pref_text.tokens = <<Pct(30), Sym("native"), Pct(30), Sym("USDC")>>
    /\ pref_result.ok
    /\ pref_result.allocation = ("NATIVE" :> 70) @@ ("USDC" :> 30)

\* C19: a text made of '<N>% <SYM>' pairs whose percentages total T > 100
\* is refused with the ValueError that names T; no allocation is returned.
C19_Over100IsRefused ==
    (Parsed /\ MadeOfPctPairs(pref_text) /\ TotalFrom(pref_text.tokens, 1) > 100) =>
        /\ ~pref_result.ok
        /\ pref_result.error = "cannot exceed 100%"
        /\ pref_result.total = TotalFrom(pref_text.tokens, 1)
        /\ pref_result.allocation = EmptyDict

\* '70% USDC 70% usdc' was parsed: refused, naming 140.
C19_Witness ==
    /\ Parsed
    /\ pref_text.tokens = <<Pct(70), Sym("USDC"), Pct(70), Sym("usdc")>>
    /\ ~pref_result.ok /\ pref_result.total = 140

\* From token i on the text is a row of '<SYM> <N>' pairs; a number may be
\* followed by a comma, and a word ("and") may stand between two pairs.
RECURSIVE SymPairsFrom(_, _)
SymPairsFrom(tokens, i) ==
    IF i > Len(tokens) THEN TRUE
    ELSE IF tokens[i].k = K_WORD
    THEN i > 1 /\ i < Len(tokens) /\ tokens[i + 1].k = K_SYM /\ SymPairsFrom(tokens, i + 1)
    ELSE /\ tokens[i].k = K_SYM /\ i < Len(tokens)
         /\ tokens[i + 1].k \in {K_NUM, K_NUMX}
         /\ SymPairsFrom(tokens, i + 2)

MadeOfSymPairs(text) == text.tokens # << >> /\ SymPairsFrom(text.tokens, 1)

\* What the '<SYM> <N>' pairs from token i on give a symbol.
RECURSIVE SymShare(_, _, _)
SymShare(tokens, sym, i) ==
    IF i >= Len(tokens) THEN 0
    ELSE IF tokens[i].k = K_SYM
    THEN (IF NameOf(tokens[i].s) = sym THEN tokens[i + 1].n ELSE 0)
         + SymShare(tokens, sym, i + 2)
    ELSE SymShare(tokens, sym, i + 1)

\* The mapping the '<SYM> <N>' pairs of a text denote.
DenotedBySymPairs(tokens) == [sym \in Named(tokens) |-> SymShare(tokens, sym, 1)]

\* C20: a text made of '<SYM> <N>' pairs (the symbol first) that total at
\* most 100, joined by a comma, a word or white space alone, is parsed into
\* the mapping the pairs denote, with the shortfall added to NATIVE.
C20_SymbolFirstPairs ==
    (Parsed /\ MadeOfSymPairs(pref_text) /\ TotalFrom(pref_text.tokens, 1) <= 100) =>
        /\ pref_result.ok
        /\ pref_result.allocation =
               WithShortfall(DenotedBySymPairs(pref_text.tokens),
                             TotalFrom(pref_text.tokens, 1))

\* C20, for the texts in which no two pairs are joined by white space
\* alone: every number but the last is followed by a comma or by a word.
C20_CommaOrWordJoinedPairs ==
    (/\ Parsed /\ MadeOfSymPairs(pref_text) /\ TotalFrom(pref_text.tokens, 1) <= 100
     /\ \A i \in 1..(Len(pref_text.tokens) - 1) :
            pref_text.tokens[i].k = K_NUM => pref_text.tokens[i + 1].k = K_WORD) =>
        /\ pref_result.ok
        /\ pref_result.allocation =
               WithShortfall(DenotedBySymPairs(pref_text.tokens),
                             TotalFrom(pref_text.tokens, 1))

(***************************************************************************)
(* C21 .. C28.  parse_streaming_response on its own.                       *)
(***************************************************************************)
\* A body has been parsed and response_text is that body.
StreamParsed ==
    /\ program = "stream"
    /\ parsed_response # NotParsed
    /\ parsed_response.stage = "parsed"

\* The parser gave its normal result: no exception left it and it did not
\* return its error field.
Returned == StreamParsed /\ ~parsed_response.raised /\ ~parsed_response.value.error

\* The identifiers a line of the bodies may carry.
StreamIds == {"x", EmptyId, ListId}

\* The '9:' lines of the body that are objects with toolCallId x, and the
\* 'a:' lines that are.
CallsWith(body, x) ==
    {i \in 1..Len(body) : body[i].p = "9" /\ body[i].j = J_OBJ /\ body[i].id = x}

ResultsWith(body, x) ==
    {i \in 1..Len(body) : body[i].p = "a" /\ body[i].j = J_OBJ /\ body[i].id = x}

\* One call with identifier x, followed by one result with identifier x.
OneCallThenOneResult(body, x) ==
    /\ Cardinality(CallsWith(body, x)) = 1
    /\ Cardinality(ResultsWith(body, x)) = 1
    /\ \A i \in CallsWith(body, x), k \in ResultsWith(body, x) : i < k

\* The records of the merged list that carry identifier x.
InvocationsWith(value, x) ==
    {i \in 1..Len(value.tool_invocations) : value.tool_invocations[i].toolCallId = x}

\* The 'result' field of a line, {} when the line has none.
ResultField(line) == IF line.res = R_ABSENT THEN R_EMPTY ELSE line.res

\* The call with identifier x is in the merged list once, completed, with
\* the result of the 'a:' line of that identifier.
CompletedOnce(body, value, x) ==
    /\ Cardinality(InvocationsWith(value, x)) = 1
    /\ \A i \in InvocationsWith(value, x), k \in ResultsWith(body, x) :
        /\ value.tool_invocations[i].state = "completed"
        /\ value.tool_invocations[i].result = ResultField(body[k])

\* C21: whenever the body holds one '9:' call with toolCallId x followed by
\* one 'a:' result with toolCallId x, whatever x is and whatever the other
\* lines are, the parser returns a merged list that holds exactly one
\* invocation with identifier x, completed, carrying that line's result.
C21_CallWithResultIsCompleted ==
    StreamParsed =>
        \A x \in StreamIds :
            OneCallThenOneResult(response_text, x) =>
                Returned /\ CompletedOnce(response_text, parsed_response.value, x)

\* C21, where the parser returned and the identifier is one Python takes
\* as true and can hash.
C21_WhenReturnedAndIdTaken ==
    Returned =>
        \A x \in StreamIds :
            (OneCallThenOneResult(response_text, x) /\ Truthy(x) /\ ~Unhashable(x)) =>
                CompletedOnce(response_text, parsed_response.value, x)

(***************************************************************************)
(* C22.  A call without a result is pending.                               *)
(***************************************************************************)
\* The '9:' lines that json.loads decoded to an object, in body order.
CallLines(body) == SelectSeq(body, LAMBDA l : l.p = "9" /\ l.j = J_OBJ)

\* Whether the call matches an 'a:' result of the body: the call has a
\* toolCallId and an 'a:' object of the body declares the same one.
Matched(body, call) == call.id # NoId /\ ResultsWith(body, call.id) # {}

\* C22: every '9:' call of the body whose toolCallId matches no 'a:' result
\* (a call without toolCallId included) is in the merged list, at its place
\* among the calls, with state 'pending' and without a result.
C22_UnmatchedCallIsPending ==
    StreamParsed =>
        \A i \in 1..Len(CallLines(response_text)) :
            ~Matched(response_text, CallLines(response_text)[i]) =>
                /\ Returned
                /\ Len(parsed_response.value.tool_invocations) >= i
                /\ parsed_response.value.tool_invocations[i].state = "pending"
                /\ parsed_response.value.tool_invocations[i].result = R_ABSENT

\* C22, where the parser returned.
C22_WhenReturned ==
    Returned =>
        \A i \in 1..Len(CallLines(response_text)) :
            ~Matched(response_text, CallLines(response_text)[i]) =>
                /\ Len(parsed_response.value.tool_invocations) >= i
                /\ parsed_response.value.tool_invocations[i].state = "pending"
                /\ parsed_response.value.tool_invocations[i].result = R_ABSENT

(***************************************************************************)
(* C23.  A skipped line changes nothing.                                   *)
(***************************************************************************)
\* The line has an unrecognized prefix or a malformed JSON body.
Skippable(line) == line.p \notin {"0", "9", "a"} \/ line.j = J_BAD

\* The body without its i-th line.
Without(body, i) == SubSeq(body, 1, i - 1) \o SubSeq(body, i + 1, Len(body))

\* What the parser of program by gives for a body.
ParseBy(by, body) ==
    IF by = "final"
    THEN ParsedBy("final", "parsed", FALSE, parse_streaming_response(body), "")
    ELSE ParsedBy("swap", "parsed", swap_parse_streaming_response(body).raised,
                  swap_parse_streaming_response(body).value, "")

\* C23: when the body parsed is a body S with a line L inserted at some
\* position, L having an unrecognized prefix or a malformed JSON body, the
\* parser gave what it gives for S alone: the same content, the same merged
\* tool list, the same assistant message (and the same failure, if S makes
\* it fail).
C23_SkippedLineChangesNothing ==
    StreamParsed =>
        \A i \in 1..Len(response_text) :
            Skippable(response_text[i]) =>
                parsed_response = ParseBy(parsed_response.by, Without(response_text, i))

\* final.py has parsed a text delta, a malformed 'a:' line and a call: the
\* content and the pending call are those of the two other lines.
C23_Witness ==
    /\ Returned /\ parsed_response.by = "final"
    /\ response_text = <<TextLine("n"), BadLine("a"), CallLine("x", TOOL_SWAP)>>
    /\ parsed_response.value.content = "n"
    /\ Len(parsed_response.value.tool_invocations) = 1
    /\ parsed_response.value.tool_invocations[1].state = "pending"

(***************************************************************************)
(* C24.  No line makes the parse fail.                                     *)
(***************************************************************************)
\* C24: whatever the lines of the body hold, the parser gives its normal
\* result: no exception leaves it and it does not return its error field.
C24_NoLineAbortsTheParse == StreamParsed => Returned

\* C24 for the bodies in which every '9:' and 'a:' line that json.loads
\* decodes is an object whose toolCallId, if any, can be hashed.
C24_WhenCallsAndResultsAreObjects ==
    (/\ StreamParsed
     /\ \A i \in 1..Len(response_text) :
            (response_text[i].p \in {"9", "a"} /\ response_text[i].j # J_BAD) =>
                response_text[i].j = J_OBJ /\ ~Unhashable(response_text[i].id)) =>
        Returned

(***************************************************************************)
(* C25.  The content is the text deltas, in line order.                    *)
(***************************************************************************)
\* The payloads of the '0:' lines whose payload is a JSON string, joined in
\* line order.
RECURSIVE TextOf(_)
TextOf(body) ==
    IF body = << >> THEN ""
    ELSE IF Head(body).p = "0" /\ Head(body).j = J_STR
    THEN Head(body).c \o TextOf(Tail(body))
    ELSE TextOf(Tail(body))

\* C25: for every body the parser returns a content, and it is the payloads
\* of the '0:' lines that are JSON strings, joined in line order; no other
\* line adds to it or takes from it.
C25_ContentIsTheTextDeltas ==
    StreamParsed => Returned /\ parsed_response.value.content = TextOf(response_text)

\* C25, where the parser returned.
C25_WhenReturned ==
    Returned => parsed_response.value.content = TextOf(response_text)

(***************************************************************************)
(* C26.  One record per decoded call, in line order.                       *)
(***************************************************************************)
\* The '9:' lines that json.loads decoded, in line order.
DecodedCalls(body) == SelectSeq(body, LAMBDA l : l.p = "9" /\ l.j # J_BAD)

\* The merged list has one record per decoded call, in the calls' order.
OneRecordPerCall(body, value) ==
    /\ Len(value.tool_invocations) = Len(DecodedCalls(body))
    /\ \A i \in 1..Len(DecodedCalls(body)) :
        /\ value.tool_invocations[i].toolCallId = DecodedCalls(body)[i].id
        /\ value.tool_invocations[i].toolName = DecodedCalls(body)[i].name

\* C26: for every body the merged tool list holds exactly one record per
\* successfully decoded '9:' line, in the order of those lines; the 'a:'
\* lines add none, remove none and move none.
C26_OneRecordPerCallInOrder ==
    StreamParsed => Returned /\ OneRecordPerCall(response_text, parsed_response.value)

\* C26, where the parser returned.
C26_WhenReturned ==
    Returned => OneRecordPerCall(response_text, parsed_response.value)

(***************************************************************************)
(* C27.  The assistant message.                                            *)
(***************************************************************************)
\* The record the parser synthesized, if any, bundles the content and the
\* merged list it returned.
BundlesWhatWasReturned(value) ==
    \A i \in 1..Len(value.assistant_message) :
        /\ value.assistant_message[i].content = value.content
        /\ value.assistant_message[i].toolInvocations = value.tool_invocations

\* C27 (the parser's part): an assistant message record is synthesized
\* exactly when the body has text content or decoded calls, and the record
\* carries the content and the merged list returned.
C27_MessageIffContentOrTools ==
    StreamParsed =>
        /\ Len(parsed_response.value.assistant_message) = 1
               <=> (TextOf(response_text) # "" \/ DecodedCalls(response_text) # << >>)
        /\ BundlesWhatWasReturned(parsed_response.value)

\* C27, where the parser returned.
C27_WhenReturned ==
    Returned =>
        /\ Len(parsed_response.value.assistant_message) = 1
               <=> (parsed_response.value.content # ""
                    \/ parsed_response.value.tool_invocations # << >>)
        /\ Len(parsed_response.value.assistant_message) <= 1
        /\ BundlesWhatWasReturned(parsed_response.value)

\* The assistant records of a history.
AssistantRecords(history) ==
    Cardinality({i \in 1..Len(history) : history[i].role = "assistant"})

\* C27 (the caller's part): a swap request of final.py whose response was
\* parsed adds at most one assistant record to the user's history, and adds
\* one when the parser synthesized one.
C27_AppendedOnce ==
    [][(IsSwapRequest(ev') /\ ev'.out.upstream = "ok") =>
          /\ AssistantRecords(chat_histories'[ev'.user])
                 <= AssistantRecords(chat_histories[ev'.user]) + 1
          /\ Len(chat_histories'[ev'.user]) <= Len(chat_histories[ev'.user]) + 2]_vars

(***************************************************************************)
(* C28.  The content parses to itself.                                     *)
(***************************************************************************)
\* The body made of a returned content has been parsed.
Reparsed ==
    /\ program = "stream"
    /\ parsed_response # NotParsed
    /\ parsed_response.stage = "reparsed"

\* C28: when a body parsed to content c, the body that is the one line
\* '0:' followed by the JSON encoding of c parses to content c.
C28_ContentParsesToItself ==
    Reparsed =>
        /\ ~parsed_response.value.error
        /\ parsed_response.value.content = parsed_response.of

\* A content of a line feed, a backslash and the letter n went through the
\* encoding and came back.
C28_Witness ==
    /\ Reparsed
    /\ parsed_response.of = Str(<<Newline, Backslash, "n">>)
    /\ parsed_response.value.content = parsed_response.of

(***************************************************************************)
(* C29.  A failed gas estimation does not stop the execution.              *)
(***************************************************************************)
\* Where in the calls made to the chain the call c is.
Position(tx, c) == {i \in 1..Len(tx.calls) : tx.calls[i] = c}

\* Whenever b was called, a had been called before it.
CalledBefore(tx, a, b) == \A k \in Position(tx, b) : \E i \in Position(tx, a) : i < k

\* C29: in both programs, when estimate_gas raised, the execution went on
\* to fetch the gas price with gas 200000 in the transaction, and if no
\* other call raised the transaction was signed and broadcast; and in every
\* execution send_raw_transaction is called only after sign_transaction
\* and wait_for_transaction_receipt only after send_raw_transaction.
C29_EstimationFailureFallsBack ==
    /\ ev.out.tx.estimate_failed =>
        /\ Position(ev.out.tx, "gas_price") # {}
        /\ ev.out.tx.gas = DEFAULT_GAS
        /\ ~ev.out.tx.raised => Signed(ev.out.tx) /\ Broadcast(ev.out.tx)
    /\ CalledBefore(ev.out.tx, "sign_transaction", "send_raw_transaction")
    /\ CalledBefore(ev.out.tx, "send_raw_transaction", "wait_for_transaction_receipt")

\* A confirm of final.py whose gas estimation failed and whose transaction
\* was broadcast with the default gas, the receipt waited for.
C29_Witness ==
    /\ IsConfirm(ev)
    /\ ev.out.tx.estimate_failed /\ ~ev.out.tx.raised
    /\ ev.out.tx.gas = DEFAULT_GAS
    /\ Broadcast(ev.out.tx)
    /\ Position(ev.out.tx, "wait_for_transaction_receipt") # {}

(***************************************************************************)
(* C30.  A broadcast only while a confirmation is awaited.                 *)
(***************************************************************************)
\* C30: a confirm (button or text) of final.py broadcasts a transaction
\* only when it finds the user awaiting swap confirmation; after a cancel
\* or a /reset the state is another one until a new swap request has been
\* offered for confirmation, so until then no confirm broadcasts.
C30_BroadcastOnlyWhenAwaitingConfirmation ==
    (IsConfirm(ev) /\ Broadcast(ev.out.tx)) => ev.pre = WAITING_FOR_SWAP_CONFIRMATION

(***************************************************************************)
(* C31.  What is pending while a confirmation is awaited.                  *)
(***************************************************************************)
\* C31: in final.py, whenever a user's state is awaiting swap confirmation,
\* the user's data holds pending tool invocations and one of them is named
\* 'swap' or 'generate-evm-tx'.
C31_PendingHoldsASwapTool ==
    program = "final" =>
        \A u \in Users :
            StateOf(user_states, u) = WAITING_FOR_SWAP_CONFIRMATION =>
                /\ Has(DataOf(user_data, u), "pending_tool_invocations")
                /\ has_swap_tool(DataOf(user_data, u)["pending_tool_invocations"])

\* C31 for the states reached by a request that was offered for
\* confirmation: right after the confirmation prompt the stored
\* invocations hold a swap tool.
C31_WhenJustOffered ==
    (/\ program = "final" /\ IsSwapRequest(ev) /\ Replied(ev, "confirm_prompt")) =>
        /\ StateOf(user_states, ev.user) = WAITING_FOR_SWAP_CONFIRMATION
        /\ has_swap_tool(DataOf(user_data, ev.user)["pending_tool_invocations"])

(***************************************************************************)
(* C32.  A stored set of invocations is executed by one confirm at most.   *)
(***************************************************************************)
\* The steps that make a stored set be executed at most once: a confirm
\* leaves no pending invocations; a confirm that finds none reports 'No
\* pending swap transaction found' without calling the chain; and only a
\* swap request stores invocations where there were none.
ExecutedAtMostOnce(raising) ==
    /\ (IsConfirm(ev') /\ (raising \/ ~ev'.out.raised)) =>
           PendingOf(user_data', ev'.user) = << >>
    /\ (IsConfirm(ev') /\ PendingOf(user_data, ev'.user) = << >>) =>
           /\ ev'.out.result = P_NO_PENDING
           /\ Replied(ev', "tx_failed")
           /\ ev'.out.tx = NoTx
    /\ \A u \in Users :
           (PendingOf(user_data, u) = << >> /\ PendingOf(user_data', u) # << >>) =>
               IsSwapRequest(ev') /\ ev'.user = u

\* C32: in final.py, with each update handled to completion before the
\* next, after any confirm (button or text) 'pending_tool_invocations' is
\* absent from the user's data, and a confirm that finds none stored
\* reports 'No pending swap transaction found' without broadcasting; only
\* a later swap request stores a new set.
C32_ConfirmExecutesOnce == [][ExecutedAtMostOnce(TRUE)]_vars

\* C32 for the confirms no exception leaves.
C32_WhenReturned == [][ExecutedAtMostOnce(FALSE)]_vars

(***************************************************************************)
(* C33.  What a reported failure says of the chain.                        *)
(***************************************************************************)
\* C33: whenever a confirm action of final.py reports 'Transaction Failed'
\* to the user, send_raw_transaction did not return during that action: no
\* transaction was broadcast.
C33_FailedMeansNotBroadcast ==
    (IsConfirm(ev) /\ Replied(ev, "tx_failed")) => ~Broadcast(ev.out.tx)

\* C33 for the failures that come before the broadcast: when the last call
\* made to the chain is not wait_for_transaction_receipt, a reported
\* failure means nothing was broadcast.
C33_WhenTheReceiptIsNotAwaited ==
    (/\ IsConfirm(ev) /\ Replied(ev, "tx_failed")
     /\ \A i \in 1..Len(ev.out.tx.calls) :
            ev.out.tx.calls[i] # "wait_for_transaction_receipt") =>
        ~Broadcast(ev.out.tx)

(***************************************************************************)
(* C34.  The stored data matches the state (final.py).                     *)
(***************************************************************************)
\* The fields the handlers of a state read are stored.
DataMatchesState(u) ==
    /\ StateOf(user_states, u) = WAITING_FOR_WALLET_ADDRESS =>
           Has(DataOf(user_data, u), "twitter_url")
    /\ StateOf(user_states, u) \in {WAITING_FOR_SWAP_REQUEST,
                                    WAITING_FOR_SWAP_CONFIRMATION} =>
           {"prize_amount", "score", "wallet_address"}
               \subseteq DOMAIN DataOf(user_data, u)

\* C34: in every reachable state of final.py, awaiting-wallet implies a
\* Twitter URL is stored, and awaiting-swap-request or
\* awaiting-swap-confirmation implies a prize amount, a score and a wallet
\* address are stored; so a message in awaiting-swap-request is never
\* answered with 'Missing prize information'.
C34_DataMatchesState ==
    program = "final" =>
        /\ \A u \in Users : DataMatchesState(u)
        /\ (ev.op = "message" /\ ev.pre = WAITING_FOR_SWAP_REQUEST) =>
               ~Replied(ev, "missing_prize")

\* C34 for the states no callback has led to: the fields are stored until
\* a button is pressed.
C34_UntilACallback ==
    [][(program = "final" /\ ev'.op # "callback" /\ \A u \in Users : DataMatchesState(u))
           => \A u \in Users : DataMatchesState(u)']_vars

(***************************************************************************)
(* C35.  The stored data matches the state (chatbot.py).                   *)
(***************************************************************************)
\* The fields the handlers of chatbot.py read in a user's state are stored.
ChatDataMatchesState(u) ==
    /\ StateOf(user_states, u) # IDLE => Has(user_data, u)
    /\ StateOf(user_states, u) = WAITING_FOR_WALLET_ADDRESS =>
           Has(DataOf(user_data, u), "twitter_url")
    /\ StateOf(user_states, u) = WAITING_FOR_TOKEN_PREFERENCE =>
           {"twitter_url", "wallet_address", "score"}
               \subseteq DOMAIN DataOf(user_data, u)

\* C35: in chatbot.py, with each message handled to completion before the
\* next, in every reachable state a user whose state is not IDLE has a data
\* record, awaiting-wallet implies the Twitter URL is stored, and
\* awaiting-token-preference implies the Twitter URL, the wallet address
\* and the score are stored; no handler raises on a missing field.
C35_ChatDataMatchesState ==
    program = "chatbot" =>
        /\ \A u \in ChatUsers : ChatDataMatchesState(u)
        /\ ~ev.out.raised

\* C35 witness: a user's token preference has just been handled to the end,
\* reading the three stored fields (the record is deleted, the state is
\* IDLE), while the other user awaits the token preference with the three
\* fields stored.
C35_Witness ==
    /\ program = "chatbot"
    /\ ev.op = "message" /\ ev.pre = WAITING_FOR_TOKEN_PREFERENCE
    /\ ev.out.result = "allocated"
    /\ StateOf(user_states, ev.user) = IDLE /\ ~Has(user_data, ev.user)
    /\ \E v \in ChatUsers :
        /\ v # ev.user
        /\ StateOf(user_states, v) = WAITING_FOR_TOKEN_PREFERENCE
        /\ {"twitter_url", "wallet_address", "score"} \subseteq DOMAIN DataOf(user_data, v)

(***************************************************************************)
(* C36.  A confirm button acts for the user who pressed it.                *)
(***************************************************************************)
\* C36: a confirm callback pressed by user A executes only the pending
\* tool invocations stored for A and changes only A's state and data,
\* whatever user identifier the button's callback data
\* ('confirm_swap_<id>') carries: its outcome is that of the invocations
\* stored for A before the press (none stored: 'No pending swap
\* transaction found' and no call to the chain), and every other user's
\* state, data and history stay as they were.
C36_ConfirmActsForThePresser ==
    [][(ev'.op = "callback" /\ ev'.data = "confirm_swap_") =>
           /\ \E chain \in PairChains :
                  ProcessResult(ev'.out.result, ev'.out.tx) =
                      process_tool_invocations(user_data, ev'.user, has_key, chain)
           /\ \A b \in PairUsers \ {ev'.user} :
                  /\ EntryOf(user_states', b) = EntryOf(user_states, b)
                  /\ EntryOf(user_data', b) = EntryOf(user_data, b)
                  /\ EntryOf(chat_histories', b) = EntryOf(chat_histories, b)]_vars

\* C36 witness: user 1, for whom nothing is pending, has pressed Confirm on
\* the keyboard sent to user 2 ('confirm_swap_2'): nothing was executed,
\* and user 2 still awaits confirmation with the invocations stored.
C36_Witness ==
    /\ ev.op = "callback" /\ ev.data = "confirm_swap_"
    /\ ev.user = 1 /\ ev.owner = 2
    /\ ev.out.result = P_NO_PENDING /\ ev.out.tx = NoTx
    /\ has_key
    /\ StateOf(user_states, 2) = WAITING_FOR_SWAP_CONFIRMATION
    /\ PendingOf(user_data, 2) # << >>

IsIdleText(e) ==
    /\ program \in {"final", "chatbot"}
    /\ e.op = "message" /\ e.addressed
    /\ e.pre = IDLE

\* C38: a text message from a user whose state is IDLE or who has no
\* session changes nothing, in final.py and chatbot.py: the states, the
\* stored data and the histories (or their absence) are after the message
\* what they were before, no outbound call is made, and only the 'use
\* /start' prompt is sent.
C38_IdleTextChangesNothing ==
    [][IsIdleText(ev') =>
           /\ user_states' = user_states
           /\ user_data' = user_data
           /\ chat_histories' = chat_histories
           /\ ev'.out.posts = 0 /\ ev'.out.tx = NoTx
           /\ ev'.out.replies = <<"use_start">>
           /\ ~ev'.out.raised]_vars

\* C38 witness: in final.py a text was answered with the prompt after a
\* completed swap: the state is IDLE, the wallet address and the history
\* of the finished session are still stored.
C38_Witness ==
    /\ IsIdleText(ev) /\ program = "final"
    /\ Replied(ev, "use_start")
    /\ EntryOf(user_states, ev.user) = <<IDLE>>
    /\ Has(DataOf(user_data, ev.user), "wallet_address")
    /\ Get(chat_histories, ev.user, << >>) # << >>

(***************************************************************************)
(* C39.  Group messages that are not for the bot.                          *)
(***************************************************************************)
\* C39: in a group or supergroup chat, a text message that neither
\* mentions the bot nor replies to one of its messages has no effect, in
\* any state of final.py and chatbot.py: no state, session data, history
\* or keyboard changes, no outbound call is made and no reply is sent.
C39_UnaddressedGroupTextIsIgnored ==
    [][(/\ program \in {"final", "chatbot"}
        /\ ev'.op = "message" /\ ~ev'.addressed) =>
           /\ user_states' = user_states
           /\ user_data' = user_data
           /\ chat_histories' = chat_histories
           /\ keyboards' = keyboards
           /\ ev'.out.posts = 0 /\ ev'.out.tx = NoTx
           /\ ev'.out.replies = << >>
           /\ ~ev'.out.raised]_vars

\* C39 witness: such a message has come while the sender was being asked
\* to confirm a swap; the swap is still pending.
C39_Witness ==
    /\ program = "final"
    /\ ev.op = "message" /\ ~ev.addressed
    /\ ev.pre = WAITING_FOR_SWAP_CONFIRMATION
    /\ StateOf(user_states, ev.user) = WAITING_FOR_SWAP_CONFIRMATION
    /\ PendingOf(user_data, ev.user) # << >>

(***************************************************************************)
(* C40.  The merge does not depend on where a result stands.               *)
(***************************************************************************)
\* Every '9:' and 'a:' line of the body carries a JSON object.
CallsAndResultsAreObjects(body) ==
    \A i \in 1..Len(body) : body[i].p \in {"9", "a"} => body[i].j = J_OBJ

\* The body with its i-th line moved to position k.
Moved(body, i, k) ==
    SubSeq(Without(body, i), 1, k - 1) \o <<body[i]>>
        \o SubSeq(Without(body, i), k, Len(body) - 1)

\* Moving the i-th line to position k takes it past no other 'a:' line of
\* its identifier.
PassesNoResultOfItsId(body, i, k) ==
    \A m \in 1..Len(body) :
        (m # i /\ ((i < m /\ m <= k) \/ (k <= m /\ m < i))) =>
            ~(body[m].p = "a" /\ body[m].id = body[i].id)

\* C40: for every body whose '9:' and 'a:' payloads are JSON objects, and
\* for both parsers, moving an 'a:' line to any other position, before or
\* after its '9:' line, without taking it past another 'a:' line of the
\* same identifier, gives the same merged tool list (and the same failure,
\* when the body makes the parse fail).
C40_MergeIgnoresWhereResultsStand ==
    (StreamParsed /\ CallsAndResultsAreObjects(response_text)) =>
        \A i, k \in 1..Len(response_text) :
            (response_text[i].p = "a" /\ PassesNoResultOfItsId(response_text, i, k)) =>
                /\ ParseBy(parsed_response.by, Moved(response_text, i, k)).value.tool_invocations
                       = parsed_response.value.tool_invocations
                /\ ParseBy(parsed_response.by, Moved(response_text, i, k)).value.error
                       = parsed_response.value.error
                /\ ParseBy(parsed_response.by, Moved(response_text, i, k)).raised
                       = parsed_response.raised

\* C40 witness: the result of call x stands before the call, with a call
\* of another tool between them; the merged list holds the call completed
\* with that result.
C40_Witness ==
    /\ Returned
    /\ response_text = <<ResultLine("x", R_SWAP), CallLine(NoId, TOOL_TX),
                         CallLine("x", TOOL_SWAP)>>
    /\ Len(parsed_response.value.tool_invocations) = 2
    /\ parsed_response.value.tool_invocations[2].state = "completed"
    /\ parsed_response.value.tool_invocations[2].result = R_SWAP

====
